---- MODULE Spec2Model ----
(***************************************************************************)
(* GradientBro analysis pipeline: extractColors (k-means), the edge        *)
(* sharpness pass, the strategy classifier and the analyzeImage            *)
(* orchestrator.                                                           *)
(*                                                                         *)
(* Numbers.  TLA+ has integers only, so every real of the program is kept  *)
(* as an exact fraction or in a fixed unit:                                *)
(*   - a centroid is kept as the sums over its pixels and their count      *)
(*     (value = sum / n), so means and distance comparisons are exact;     *)
(*   - values the program rounds to 2 decimals are kept in hundredths;     *)
(*   - luminance (0.299 R + 0.587 G + 0.114 B) is a whole number for the   *)
(*     colours of the test images, so sums of luminances are exact;        *)
(*   - a square root is the integer square root in the unit at hand;       *)
(*   - NaN is the value of 0 / 0 and of everything computed from it.       *)
(* Sequences are 1-based: pixel i is (x, y) = ((i-1) % w, (i-1) \div w),   *)
(* and cluster index c of the program is c+1 here.                         *)
(***************************************************************************)
EXTENDS Integers, Sequences, FiniteSets, TLC

VARIABLES
  img,          \* the pixel buffer returned by loadImage
  k,            \* the cluster count
  maxIter,      \* the iteration budget of extractColors
  rands,        \* the numerators rn of the values Math.random() may return
  pc,           \* the statement analyzeImage is at
  calls,        \* the analyzers that have returned, in order
  centroids,    \* extractColors: the centroids
  assignments,  \* extractColors: the cluster of each pixel
  iter,         \* extractColors: iterations that recomputed the centroids
  colors,       \* the ColorRegion list
  eassign,      \* the result of assignPixelsToClusters
  noise, blur, vignette, mood,
  shapes,       \* the ShapeInfo handed to classifyStrategy
  geom,         \* the ClusterGeometry handed to classifyShape on its own
  strategy,
  result,       \* the GradientSpec returned
  cli           \* the command-line process running analyzeImage, if any

vars == <<img, k, maxIter, rands, pc, calls, centroids, assignments, iter,
          colors, eassign, noise, blur, vignette, mood, shapes, geom,
          strategy, result, cli>>

(* ------------------------------ bounds --------------------------------- *)

\* largest cluster count drawn for the small images
MaxK == 3
\* Math.random() returns rn / RandDen for rn in 0 .. RandDen-1
RandDen == 3
\* a short iteration budget, next to the default one
ShortIter == 1
\* largest cluster count drawn for the swatch image
WideK == 14

\* largest number of regions handed to classifyStrategy on its own
MaxRegions == 5
\* largest number of contours handed to classifyStrategy on its own
MaxContours == 3

\* largest number of regions handed to buildBlurLayers on its own
MaxLayerRegions == 3

\* default of the maxIter parameter
DefaultMaxIter == 20

\* the value of 0 / 0 (every number of the program is >= 0 here)
NaN == -1

\* a number field that was never written
Undefined == -2

\* an object that was never produced
Absent == [absent |-> TRUE]

\* a strategy that was never computed
NoStrategy == "undefined"

(* --------------------------- generic helpers --------------------------- *)

Abs(n) == IF n < 0 THEN -n ELSE n

Min(a, b) == IF a < b THEN a ELSE b

Max(a, b) == IF a > b THEN a ELSE b

RECURSIVE SumSeq(_)
SumSeq(s) == IF s = <<>> THEN 0 ELSE Head(s) + SumSeq(Tail(s))

\* Math.round(num / den) for num >= 0, den > 0 (halves round up)
RoundDiv(num, den) == (2 * num + den) \div (2 * den)

RECURSIVE SqrtSearch(_, _, _)
SqrtSearch(n, lo, hi) ==
  IF lo >= hi THEN lo
  ELSE LET mid == (lo + hi + 1) \div 2
       IN IF mid * mid <= n THEN SqrtSearch(n, mid, hi)
          ELSE SqrtSearch(n, lo, mid - 1)

\* Math.sqrt, truncated to an integer of the unit at hand
ISqrt(n) == SqrtSearch(n, 0, Min(n, 46340))

(* ------------------------------ images --------------------------------- *)

\* colours whose luminance 0.299 R + 0.587 G + 0.114 B is a whole number:
\* black, white, a warm orange (hue 9) and a cool cyan (hue 189)
Black == <<0, 0, 0>>

White == <<255, 255, 255>>

Warm == <<250, 100, 75>>

Cool == <<0, 150, 175>>

Gray == <<128, 128, 128>>

Palette == { Black, White, Warm }

Sizes == { <<2, 2>>, <<3, 3>>, <<3, 4>> }

Patterns == { "flat", "split", "spot", "bands", "tee" }

PixX(i, w) == (i - 1) % w

PixY(i, w) == (i - 1) \div w

\* colour of pixel (x, y) of a w x h test image
PatternPixel(p, w, h, a, b, x, y) ==
  CASE p = "flat"  -> a
    [] p = "split" -> IF 2 * x < w THEN a ELSE b
    [] p = "spot"  -> IF x = w \div 2 /\ y = h \div 2 THEN b ELSE a
    [] p = "bands" -> IF x % 3 = 0 THEN a ELSE IF x % 3 = 1 THEN Gray ELSE b
    [] p = "tee"   -> IF x = 0 \/ (x = 1 /\ y = 1) THEN a ELSE b
    [] p = "ell"   -> IF y <= 1 \/ x = 0 THEN a ELSE b
    [] p = "notch" -> IF y <= 2 /\ ~(x = 3 /\ y = 0) THEN a ELSE b
    [] p = "ridge" -> IF y \in {3, 4} \/ (y = 2 /\ x < 4) THEN a ELSE b
    [] p = "block" -> IF x < 5 /\ y < 5 THEN a ELSE b

MakeImage(p, w, h, a, b) ==
  [width |-> w, height |-> h, originalWidth |-> w, originalHeight |-> h,
   data |-> [i \in 1..(w * h) |->
               PatternPixel(p, w, h, a, b, PixX(i, w), PixY(i, w))]]

SmallImages ==
  { MakeImage(p, s[1], s[2], a, b) :
      p \in Patterns, s \in Sizes, a \in Palette, b \in Palette }

\* 8 x 8 images of one shape on a background
ShapePatterns == { "ell", "notch", "ridge", "block" }

\* dark grays: their luminance is their level
ShapePalette == { <<0, 0, 0>>, <<6, 6, 6>>, <<12, 12, 12>> }

ShapeImages ==
  { MakeImage(p, 8, 8, a, b) :
      p \in ShapePatterns, a \in ShapePalette, b \in ShapePalette }

\* a 6 x 3 swatch: 13 pixels of 13 different grays and 5 white pixels
WideImage ==
  [width |-> 6, height |-> 3, originalWidth |-> 6, originalHeight |-> 3,
   data |-> [i \in 1..18 |->
               IF i <= 13 THEN <<10 * i, 10 * i, 10 * i>> ELSE White]]

\* a w x h buffer of the colour base but for the pixels marked
ProbeImage(w, h, base, marks) ==
  [width |-> w, height |-> h, originalWidth |-> w, originalHeight |-> h,
   data |-> [i \in 1..(w * h) |-> IF i \in DOMAIN marks THEN marks[i] ELSE base]]

Shade(v) == <<v, v, v>>

\* 5 x 3, black but for three top-row pixels above the interior pixels,
\* whose Laplacians are then the three levels
BlurProbes ==
  { ProbeImage(5, 3, Black,
               (2 :> Shade(t[1])) @@ (3 :> Shade(t[2])) @@ (4 :> Shade(t[3]))) :
      t \in { <<0, 0, 0>>, <<12, 0, 0>>, <<22, 1, 0>>, <<35, 3, 0>>,
              <<48, 1, 0>>, <<49, 0, 0>>, <<60, 0, 0>> } }

\* 5 x 3, black but for the four pixels nearest the centre
VignetteProbes ==
  { ProbeImage(5, 3, Black,
               (8 :> Shade(c[1])) @@ (9 :> Shade(c[2]))
               @@ (13 :> Shade(c[1])) @@ (14 :> Shade(c[2]))) :
      c \in { <<9, 9>>, <<10, 10>>, <<10, 11>>, <<11, 11>>, <<40, 40>> } }

\* 5 x 4 = 20 pixels, gray but for the first j, and a 5 x 2 gray buffer
MoodProbes ==
  { ProbeImage(5, 4, Gray, [i \in 1..j |-> c]) : j \in 0..2, c \in {Warm, Cool} }
  \cup { ProbeImage(5, 2, Gray, <<>>) }

ToneImages == BlurProbes \cup VignetteProbes \cup MoodProbes

\* getPixel(img, x, y)
getPixel(im, x, y) == im.data[y * im.width + x + 1]

NumPixels(im) == im.width * im.height

\* products a * b of naturals, b below 2^20, as <<high, low>> in base 2^20
WMul(a, b) ==
  LET mid == (a \div 1024) * (b % 1024) + (a % 1024) * (b \div 1024)
      low == (mid % 1024) * 1024 + (a % 1024) * (b % 1024)
  IN <<(a \div 1024) * (b \div 1024) + (mid \div 1024) + (low \div 1048576),
       low % 1048576>>

WAdd(u, v) ==
  <<u[1] + v[1] + ((u[2] + v[2]) \div 1048576), (u[2] + v[2]) % 1048576>>

WScale(u, c) ==
  <<u[1] * c + ((u[2] * c) \div 1048576), (u[2] * c) % 1048576>>

WLess(u, v) == u[1] < v[1] \/ (u[1] = v[1] /\ u[2] < v[2])

(* --------------------------- utils/color ------------------------------- *)

\* colorDistance(a, b) squared: Euclidean over RGB, numerators of a centroid
\* kept as sums: |p - s/n|^2 = DistNum(p, s, n) / n^2
DistNum(p, cent) ==
  (cent.n * p[1] - cent.r) * (cent.n * p[1] - cent.r)
  + (cent.n * p[2] - cent.g) * (cent.n * p[2] - cent.g)
  + (cent.n * p[3] - cent.b) * (cent.n * p[3] - cent.b)

\* colorDistance(p, c1) < colorDistance(p, c2)
CloserThan(p, c1, c2) ==
  WLess(WMul(DistNum(p, c1), c2.n * c2.n), WMul(DistNum(p, c2), c1.n * c1.n))

\* rgbToHex: two hexadecimal digits per channel
rgbToHex(r, g, b) ==
  <<r \div 16, r % 16, g \div 16, g % 16, b \div 16, b % 16>>

(* -------------------------- color-extractor ---------------------------- *)

\* SampleCentroid with the green channel copied from the red one
SampleCentroidSwapped(im, i) ==
  [r |-> im.data[i][1], g |-> im.data[i][1], b |-> im.data[i][3],
   x |-> PixX(i, im.width), y |-> PixY(i, im.width), n |-> 1]

\* a PixelSample used as a Centroid: sums over one pixel
SampleCentroid(im, i) ==
  [r |-> im.data[i][1], g |-> im.data[i][2], b |-> im.data[i][3],
   x |-> PixX(i, im.width), y |-> PixY(i, im.width), n |-> 1]

\* index of the nearest centroid, the first one winning ties (d < bestDist)
RECURSIVE NearestFrom(_, _, _, _)
NearestFrom(p, cents, c, best) ==
  IF c > Len(cents) THEN best
  ELSE NearestFrom(p, cents, c + 1,
                   IF CloserThan(p, cents[c], cents[best]) THEN c ELSE best)

Nearest(p, cents) == NearestFrom(p, cents, 2, 1)

\* kMeansPlusPlusInit: squared distance of sample i to its nearest centroid
SeedDistance(im, cents, i) ==
  DistNum(im.data[i], cents[Nearest(im.data[i], cents)])

\* the selection loop: r starts at rand * totalDist, r -= distances[i], the
\* first i with r <= 0 is picked, and idx stays 0 when none is
RECURSIVE SeedPickFrom(_, _, _, _, _)
SeedPickFrom(im, cents, i, rnum, rden) ==
  IF i > NumPixels(im) THEN 1
  ELSE LET rest == rnum - rden * SeedDistance(im, cents, i)
       IN IF rest <= 0 THEN i
          ELSE SeedPickFrom(im, cents, i + 1, rest, rden)

TotalSeedDistance(im, cents) ==
  SumSeq([i \in 1..NumPixels(im) |-> SeedDistance(im, cents, i)])

\* the sample picked for the next centroid when Math.random() = rn / RandDen
SeedPick(im, cents, rn) ==
  IF cents = <<>> THEN (rn * NumPixels(im)) \div RandDen + 1
  ELSE SeedPickFrom(im, cents, 1, rn * TotalSeedDistance(im, cents), RandDen)

\* AssignAll with the last of the nearest centroids winning ties
AssignAllLastWins(im, cents) ==
  [i \in 1..NumPixels(im) |->
     CHOOSE a \in 1..Len(cents) :
       /\ \A c \in 1..Len(cents) : ~CloserThan(im.data[i], cents[c], cents[a])
       /\ \A c \in (a + 1)..Len(cents) : CloserThan(im.data[i], cents[a], cents[c])]

\* the assignment pass of one iteration
AssignAll(im, cents) ==
  [i \in 1..NumPixels(im) |-> Nearest(im.data[i], cents)]

Members(asg, c) == { i \in DOMAIN asg : asg[i] = c }

RECURSIVE SumOver(_, _)
SumOver(S, f) ==
  IF S = {} THEN 0
  ELSE LET e == CHOOSE e \in S : TRUE
       IN f[e] + SumOver(S \ {e}, f)

\* the recomputation pass: mean colour and position of the assigned pixels,
\* a centroid without pixels keeping its value
Recompute(im, cents, asg) ==
  [c \in 1..Len(cents) |->
     LET M == Members(asg, c)
     IN IF M = {} THEN cents[c]
        ELSE [r |-> SumOver(M, [i \in M |-> im.data[i][1]]),
              g |-> SumOver(M, [i \in M |-> im.data[i][2]]),
              b |-> SumOver(M, [i \in M |-> im.data[i][3]]),
              x |-> SumOver(M, [i \in M |-> PixX(i, im.width)]),
              y |-> SumOver(M, [i \in M |-> PixY(i, im.width)]),
              n |-> Cardinality(M)]]

\* Weight truncated instead of rounded
WeightTruncated(count, total) == (100 * count) \div total

\* weight = pixels.length / totalPixels, rounded to 2 decimals (hundredths)
Weight(count, total) == RoundDiv(100 * count, total)

\* Math.round(cent.x * 100) / 100 with cent.x = sum / (n * (w - 1))
RoundPos(sum, n, span) == RoundDiv(100 * sum, n * span)

\* Spread with the mean distance taken over 1.414
SpreadOverDiagonal(im, cent, M) ==
  LET sx == im.width - 1
      sy == im.height - 1
      dist(i) ==
        LET A == (PixX(i, im.width) * cent.n - cent.x) * sy
            B == (PixY(i, im.width) * cent.n - cent.y) * sx
        IN IF A * A + B * B < 200000
           THEN (ISqrt(10000 * (A * A + B * B)) * 10) \div (cent.n * sx * sy)
           ELSE (ISqrt(100 * (A * A + B * B)) * 100) \div (cent.n * sx * sy)
      total == SumOver(M, [i \in M |-> dist(i)])
      n == Cardinality(M)
  IN Min(100, RoundDiv(100 * total, 1414 * n))

\* spread: mean distance of the pixels to the centroid position, over 0.707,
\* capped at 1 and rounded to 2 decimals; distances in thousandths
Spread(im, cent, M) ==
  LET sx == im.width - 1
      sy == im.height - 1
      dist(i) ==
        LET A == (PixX(i, im.width) * cent.n - cent.x) * sy
            B == (PixY(i, im.width) * cent.n - cent.y) * sx
        IN IF A * A + B * B < 200000
           THEN (ISqrt(10000 * (A * A + B * B)) * 10) \div (cent.n * sx * sy)
           ELSE (ISqrt(100 * (A * A + B * B)) * 100) \div (cent.n * sx * sy)
      total == SumOver(M, [i \in M |-> dist(i)])
      n == Cardinality(M)
  IN Min(100, RoundDiv(100 * total, 707 * n))

\* the ColorRegion built for cluster c
Region(im, cent, M) ==
  LET rgb == <<RoundDiv(cent.r, cent.n), RoundDiv(cent.g, cent.n),
               RoundDiv(cent.b, cent.n)>>
  IN [hex |-> rgbToHex(rgb[1], rgb[2], rgb[3]),
      rgb |-> rgb,
      position |-> [x |-> RoundPos(cent.x, cent.n, im.width - 1),
                    y |-> RoundPos(cent.y, cent.n, im.height - 1)],
      weight |-> Weight(Cardinality(M), NumPixels(im)),
      spread |-> Spread(im, cent, M),
      edgeSharpness |-> Undefined]

\* BuildFrom also skipping the clusters of a single pixel
RECURSIVE BuildFromDropSingle(_, _, _, _)
BuildFromDropSingle(im, cents, asg, c) ==
  IF c > Len(cents) THEN <<>>
  ELSE LET M == Members(asg, c)
           rest == BuildFromDropSingle(im, cents, asg, c + 1)
       IN IF Cardinality(M) <= 1 THEN rest
          ELSE <<Region(im, cents[c], M)>> \o rest

\* results before the sort: one region per non-empty cluster, in index order
RECURSIVE BuildFrom(_, _, _, _)
BuildFrom(im, cents, asg, c) ==
  IF c > Len(cents) THEN <<>>
  ELSE LET M == Members(asg, c)
           rest == BuildFrom(im, cents, asg, c + 1)
       IN IF M = {} THEN rest ELSE <<Region(im, cents[c], M)>> \o rest

\* results.sort((a, b) => b.weight - a.weight): stable, descending weight
RECURSIVE InsertByWeight(_, _)
InsertByWeight(sorted, e) ==
  IF sorted = <<>> THEN <<e>>
  ELSE IF Head(sorted).weight >= e.weight
       THEN <<Head(sorted)>> \o InsertByWeight(Tail(sorted), e)
       ELSE <<e>> \o sorted

RECURSIVE SortByWeight(_)
SortByWeight(s) ==
  IF s = <<>> THEN <<>>
  ELSE InsertByWeight(SortByWeight(SubSeq(s, 1, Len(s) - 1)), s[Len(s)])

BuildResults(im, cents, asg) == SortByWeight(BuildFrom(im, cents, asg, 1))

(* ----------------------------- luminance ------------------------------ *)

\* 0.299 r + 0.587 g + 0.114 b
Lum(p) == (299 * p[1] + 587 * p[2] + 114 * p[3]) \div 1000

LumAt(im, x, y) == Lum(getPixel(im, x, y))

\* the pixels (x, y) with x0 <= x < x1 and y0 <= y < y1, as the loops visit
\* them (row by row)
ScanOrder(x0, x1, y0, y1) ==
  IF x1 <= x0 \/ y1 <= y0 THEN <<>>
  ELSE [j \in 1..((x1 - x0) * (y1 - y0)) |->
          <<x0 + ((j - 1) % (x1 - x0)), y0 + ((j - 1) \div (x1 - x0))>>]

\* n times the sum of squared deviations from the mean: n^2 * variance
VarianceNum(vals) ==
  Len(vals) * SumSeq([j \in 1..Len(vals) |-> vals[j] * vals[j]])
  - SumSeq(vals) * SumSeq(vals)

(* ---------------------------- blur-analyzer ---------------------------- *)

Laplacian(im, x, y) ==
  LumAt(im, x, y - 1) + LumAt(im, x, y + 1) + LumAt(im, x - 1, y)
  + LumAt(im, x + 1, y) - 4 * LumAt(im, x, y)

\* analyzeBlur with the level none starting above 0.6
analyzeBlurLateNone(im) ==
  LET at == ScanOrder(1, im.width - 1, 1, im.height - 1)
      laplacianValues == [j \in 1..Len(at) |-> Laplacian(im, at[j][1], at[j][2])]
      n == Len(laplacianValues)
      num == VarianceNum(laplacianValues)
  IN IF n = 0
     THEN [level |-> "heavy", variance |-> NaN]
     ELSE [level |-> IF num > 600 * n * n THEN "none"
                     ELSE IF num > 250 * n * n THEN "light"
                     ELSE IF num > 100 * n * n THEN "medium"
                     ELSE "heavy",
           variance |-> Min(100, RoundDiv(num, 10 * n * n))]

analyzeBlur(im) ==
  LET at == ScanOrder(1, im.width - 1, 1, im.height - 1)
      laplacianValues == [j \in 1..Len(at) |-> Laplacian(im, at[j][1], at[j][2])]
      n == Len(laplacianValues)
      num == VarianceNum(laplacianValues)
  IN IF n = 0
     THEN [level |-> "heavy", variance |-> NaN]
     ELSE [level |-> IF num > 500 * n * n THEN "none"
                     ELSE IF num > 250 * n * n THEN "light"
                     ELSE IF num > 100 * n * n THEN "medium"
                     ELSE "heavy",
           variance |-> Min(100, RoundDiv(num, 10 * n * n))]

(* ---------------------------- noise-analyzer --------------------------- *)

\* the sign alternations of the rightward difference along the scan
RECURSIVE Alternations(_, _, _, _)
Alternations(im, at, j, prevDiffSign) ==
  IF j > Len(at) THEN 0
  ELSE LET diffRight == LumAt(im, at[j][1] + 1, at[j][2])
                        - LumAt(im, at[j][1], at[j][2])
           sign == IF diffRight >= 0 THEN 1 ELSE -1
       IN (IF prevDiffSign # 0 /\ sign # prevDiffSign THEN 1 ELSE 0)
          + Alternations(im, at, j + 1, sign)

\* 25 * (origLum - blurLum) for the 5 x 5 box blur around (x, y)
Residual(im, x, y) ==
  25 * LumAt(im, x, y)
  - SumSeq([j \in 1..25 |->
              LumAt(im, x - 2 + ((j - 1) % 5), y - 2 + ((j - 1) \div 5))])

analyzeNoise(im) ==
  LET at == ScanOrder(0, im.width - 1, 0, im.height - 1)
      totalDiff ==
        SumSeq([j \in 1..Len(at) |->
                  Abs(LumAt(im, at[j][1] + 1, at[j][2])
                      - LumAt(im, at[j][1], at[j][2]))
                  + Abs(LumAt(im, at[j][1], at[j][2] + 1)
                        - LumAt(im, at[j][1], at[j][2]))])
      comparisons == 2 * Len(at)
      alternations == Alternations(im, at, 1, 0)
      possible == (im.width - 1) * (im.height - 1)
      frequency == IF possible = 0 THEN "coarse"
                   ELSE IF 10 * alternations > 6 * possible THEN "fine"
                   ELSE IF 100 * alternations > 35 * possible THEN "medium"
                   ELSE "coarse"
      smooth == comparisons # 0 /\ 1000 * totalDiff < 15 * 255 * comparisons
      rat == ScanOrder(2, im.width - 2, 2, im.height - 2)
      residuals == [j \in 1..Len(rat) |-> Residual(im, rat[j][1], rat[j][2])]
      n == Len(residuals)
      residualW == im.width - 4
      residualH == im.height - 4
      lat == ScanOrder(1, residualW - 1, 1, residualH - 1)
      res(x, y) == residuals[y * residualW + x + 1]
      laplacianValues ==
        [j \in 1..Len(lat) |->
           res(lat[j][1], lat[j][2] - 1) + res(lat[j][1], lat[j][2] + 1)
           + res(lat[j][1] - 1, lat[j][2]) + res(lat[j][1] + 1, lat[j][2])
           - 4 * res(lat[j][1], lat[j][2])]
      lapN == Len(laplacianValues)
  IN [intensity |-> IF comparisons = 0 THEN NaN
                    ELSE Min(100, RoundDiv(1000 * totalDiff, 255 * comparisons)),
      frequency |-> frequency,
      type |-> IF smooth THEN "smooth"
               ELSE IF frequency = "fine" THEN "grain" ELSE "speckle",
      sharpness |-> IF lapN = 0 THEN NaN
                    ELSE Min(100, RoundDiv(VarianceNum(laplacianValues),
                                           500 * lapN * lapN)),
      contrast |-> IF n = 0 THEN NaN
                   ELSE Min(100, RoundDiv(ISqrt(VarianceNum(residuals)), 5 * n)),
      baseFrequency |-> IF possible = 0 THEN NaN
                        ELSE Min(100, Max(30, RoundDiv(60 * possible
                                                       + 175 * alternations,
                                                       2 * possible)))]

(* ---------------------------- region-mapper ---------------------------- *)

\* rgbToHsl: hue in thousandths of a degree, truncated
HueOf(p) ==
  LET mx == Max(p[1], Max(p[2], p[3]))
      mn == Min(p[1], Min(p[2], p[3]))
      d == mx - mn
  IN IF d = 0 THEN 0
     ELSE IF mx = p[1]
          THEN ((60000 * (p[2] - p[3])) \div d) + (IF p[2] < p[3] THEN 360000 ELSE 0)
     ELSE IF mx = p[2] THEN ((60000 * (p[3] - p[1])) \div d) + 120000
     ELSE ((60000 * (p[1] - p[2])) \div d) + 240000

\* rgbToHsl: saturation > 0.1
Saturated(p) ==
  LET mx == Max(p[1], Max(p[2], p[3]))
      mn == Min(p[1], Min(p[2], p[3]))
      d == mx - mn
  IN IF d = 0 THEN FALSE
     ELSE IF mx + mn > 255 THEN 10 * d > 510 - mx - mn
     ELSE 10 * d > mx + mn

\* detectVignette reporting a vignette from a strength of 0.075
detectVignetteLowBar(im) ==
  LET N == NumPixels(im)
      ring(i) ==
        LET dx == 2 * PixX(i, im.width) - im.width
            dy == 2 * PixY(i, im.width) - im.height
            d2 == 10000 * (dx * dx + dy * dy)
            m2 == im.width * im.width + im.height * im.height
        IN IF d2 < 1225 * m2 THEN "center"
           ELSE IF d2 > 4225 * m2 THEN "edge" ELSE "mid"
      centerPixels == { i \in 1..N : ring(i) = "center" }
      edgePixels == { i \in 1..N : ring(i) = "edge" }
      sumCenter == SumOver(centerPixels, [i \in centerPixels |-> Lum(im.data[i])])
      sumEdge == SumOver(edgePixels, [i \in edgePixels |-> Lum(im.data[i])])
      nCenter == Max(1, Cardinality(centerPixels))
      nEdge == Max(1, Cardinality(edgePixels))
      \* 255 * nCenter * nEdge * max(0, avgCenter - avgEdge)
      diff == Max(0, sumCenter * nEdge - sumEdge * nCenter)
      den == 255 * nCenter * nEdge
  IN [detected |-> 100 * diff > 3 * den,
      strength |-> Min(100, RoundDiv(250 * diff, den))]

detectVignette(im) ==
  LET N == NumPixels(im)
      ring(i) ==
        LET dx == 2 * PixX(i, im.width) - im.width
            dy == 2 * PixY(i, im.width) - im.height
            d2 == 10000 * (dx * dx + dy * dy)
            m2 == im.width * im.width + im.height * im.height
        IN IF d2 < 1225 * m2 THEN "center"
           ELSE IF d2 > 4225 * m2 THEN "edge" ELSE "mid"
      centerPixels == { i \in 1..N : ring(i) = "center" }
      edgePixels == { i \in 1..N : ring(i) = "edge" }
      sumCenter == SumOver(centerPixels, [i \in centerPixels |-> Lum(im.data[i])])
      sumEdge == SumOver(edgePixels, [i \in edgePixels |-> Lum(im.data[i])])
      nCenter == Max(1, Cardinality(centerPixels))
      nEdge == Max(1, Cardinality(edgePixels))
      \* 255 * nCenter * nEdge * max(0, avgCenter - avgEdge)
      diff == Max(0, sumCenter * nEdge - sumEdge * nCenter)
      den == 255 * nCenter * nEdge
  IN [detected |-> 100 * diff > 4 * den,
      strength |-> Min(100, RoundDiv(250 * diff, den))]

\* detectMood asking for more than 10% of saturated pixels
detectMoodTenth(im) ==
  LET N == NumPixels(im)
      totalLum == SumSeq([i \in 1..N |-> Lum(im.data[i])])
      sat == { i \in 1..N : Saturated(im.data[i]) }
      totalHue == SumOver(sat, [i \in sat |-> HueOf(im.data[i])])
      saturatedCount == Cardinality(sat)
      warm == totalHue <= 70000 * saturatedCount
              \/ totalHue >= 300000 * saturatedCount
      cool == /\ totalHue >= 160000 * saturatedCount
              /\ totalHue <= 280000 * saturatedCount
  IN [temperature |-> IF 10 * saturatedCount > N
                      THEN IF warm THEN "warm"
                           ELSE IF cool THEN "cool" ELSE "neutral"
                      ELSE "neutral",
      brightness |-> IF 100 * totalLum < 20 * 255 * N THEN "dark"
                     ELSE IF 100 * totalLum < 35 * 255 * N THEN "medium-dark"
                     ELSE IF 100 * totalLum < 55 * 255 * N THEN "medium"
                     ELSE IF 100 * totalLum < 75 * 255 * N THEN "medium-bright"
                     ELSE "bright"]

detectMood(im) ==
  LET N == NumPixels(im)
      totalLum == SumSeq([i \in 1..N |-> Lum(im.data[i])])
      sat == { i \in 1..N : Saturated(im.data[i]) }
      totalHue == SumOver(sat, [i \in sat |-> HueOf(im.data[i])])
      saturatedCount == Cardinality(sat)
      warm == totalHue <= 70000 * saturatedCount
              \/ totalHue >= 300000 * saturatedCount
      cool == /\ totalHue >= 160000 * saturatedCount
              /\ totalHue <= 280000 * saturatedCount
  IN [temperature |-> IF 20 * saturatedCount > N
                      THEN IF warm THEN "warm"
                           ELSE IF cool THEN "cool" ELSE "neutral"
                      ELSE "neutral",
      brightness |-> IF 100 * totalLum < 20 * 255 * N THEN "dark"
                     ELSE IF 100 * totalLum < 35 * 255 * N THEN "medium-dark"
                     ELSE IF 100 * totalLum < 55 * 255 * N THEN "medium"
                     ELSE IF 100 * totalLum < 75 * 255 * N THEN "medium-bright"
                     ELSE "bright"]

(* ---------------------------- edge-sharpness --------------------------- *)

\* a region's stored rgb as the point colorDistance is measured to
RegionPoint(region) ==
  [r |-> region.rgb[1], g |-> region.rgb[2], b |-> region.rgb[3],
   x |-> 0, y |-> 0, n |-> 1]

assignPixelsToClusters(im, cols) ==
  LET points == [c \in 1..Len(cols) |-> RegionPoint(cols[c])]
  IN [i \in 1..NumPixels(im) |-> Nearest(im.data[i], points)]

\* the interior pixels with a 4-connected neighbour of another cluster
BoundaryPixels(im, asg) ==
  LET a(x, y) == asg[y * im.width + x + 1]
  IN { q \in (1..(im.width - 2)) \X (1..(im.height - 2)) :
         \/ a(q[1], q[2] - 1) # a(q[1], q[2])
         \/ a(q[1], q[2] + 1) # a(q[1], q[2])
         \/ a(q[1] - 1, q[2]) # a(q[1], q[2])
         \/ a(q[1] + 1, q[2]) # a(q[1], q[2]) }

\* sqrt(gx^2 + gy^2) at (x, y), in hundredths
GradMag(im, x, y) ==
  LET gx == LumAt(im, x + 1, y) - LumAt(im, x - 1, y)
      gy == LumAt(im, x, y + 1) - LumAt(im, x, y - 1)
  IN ISqrt(10000 * (gx * gx + gy * gy))

\* EdgeValue without the cap at 1
EdgeValueUncapped(gradSum, gradCount) ==
  IF gradCount = 0 THEN 0
  ELSE RoundDiv(2 * gradSum, 100 * gradCount)

\* Math.round(Math.min(1, avgGrad / 50) * 100) / 100, in hundredths, for a
\* sum of magnitudes in hundredths; 0 when no boundary pixel was counted
EdgeValue(gradSum, gradCount) ==
  IF gradCount = 0 THEN 0
  ELSE Min(100, RoundDiv(2 * gradSum, 100 * gradCount))

\* the boundary pixels counted for cluster c
CountedFor(im, asg, c) ==
  { q \in BoundaryPixels(im, asg) : asg[q[2] * im.width + q[1] + 1] = c }

EdgeSharpnessOf(im, asg, c) ==
  LET B == CountedFor(im, asg, c)
  IN EdgeValue(SumOver(B, [q \in B |-> GradMag(im, q[1], q[2])]),
               Cardinality(B))

\* Annotate, then re-sorting the regions by sharpness
AnnotateSorted(cols, vals) ==
  LET n == Len(cols)
      rank(j) == Cardinality({ i \in 1..n :
                     vals[i] > vals[j] \/ (vals[i] = vals[j] /\ i <= j) })
  IN [r \in 1..n |->
        LET j == CHOOSE j \in 1..n : rank(j) = r
        IN [cols[j] EXCEPT !.edgeSharpness = vals[j]]]

\* colors[c].edgeSharpness = ... for every c, nothing else being written
Annotate(cols, vals) ==
  [c \in 1..Len(cols) |-> [cols[c] EXCEPT !.edgeSharpness = vals[c]]]

\* computeEdgeSharpness adding to the edgeSharpness a region already has
computeEdgeSharpnessAdding(im, cols, asg) ==
  Annotate(cols, [c \in 1..Len(cols) |->
                    IF cols[c].edgeSharpness = Undefined
                    THEN EdgeSharpnessOf(im, asg, c)
                    ELSE Min(100, cols[c].edgeSharpness
                                  + EdgeSharpnessOf(im, asg, c))])

computeEdgeSharpness(im, cols, asg) ==
  Annotate(cols, [c \in 1..Len(cols) |-> EdgeSharpnessOf(im, asg, c)])

(* -------------------------- strategy-classifier ------------------------ *)

\* The covariance of the centroid positions, times n^2 (positions in
\* hundredths): with T = n^2 * trace and D = 2 * n^2 * disc,
\* linearity = eigen1 / (eigen1 + eigen2) = 1/2 + D / (2 T), or 1/2 when T = 0.
Scatter(cols) ==
  LET n == Len(cols)
      sx == SumSeq([i \in 1..n |-> cols[i].position.x])
      sy == SumSeq([i \in 1..n |-> cols[i].position.y])
      sxx == n * SumSeq([i \in 1..n |-> cols[i].position.x * cols[i].position.x])
             - sx * sx
      syy == n * SumSeq([i \in 1..n |-> cols[i].position.y * cols[i].position.y])
             - sy * sy
      sxy == n * SumSeq([i \in 1..n |-> cols[i].position.x * cols[i].position.y])
             - sx * sy
  IN [T |-> sxx + syy,
      T2 |-> WMul(sxx + syy, sxx + syy),
      D2 |-> WAdd(WMul(Abs(sxx - syy), Abs(sxx - syy)),
                  WScale(WMul(Abs(sxy), Abs(sxy)), 4))]

\* linearity > 0.75, that is D > T / 2
LinearityAbove75(cols) ==
  LET s == Scatter(cols) IN s.T > 0 /\ WLess(s.T2, WScale(s.D2, 4))

\* linearity < 0.65, that is D < 0.3 T
LinearityBelow65(cols) ==
  LET s == Scatter(cols)
  IN s.T = 0 \/ WLess(WScale(s.D2, 100), WScale(s.T2, 9))

\* linearity < 0.7, that is D < 0.4 T
LinearityBelow70(cols) ==
  LET s == Scatter(cols)
  IN s.T = 0 \/ WLess(WScale(s.D2, 25), WScale(s.T2, 4))

\* linearity >= num / den and linearity <= num / den, for 0 <= num <= den:
\* with T > 0 linearity = 1/2 + D / (2 T), else it is 0.5
LinearityAtLeast(cols, num, den) ==
  LET s == Scatter(cols)
      c == 2 * num - den
  IN IF s.T = 0 THEN den >= 2 * num
     ELSE c <= 0 \/ ~WLess(WScale(s.D2, den * den), WScale(s.T2, c * c))

LinearityAtMost(cols, num, den) ==
  LET s == Scatter(cols)
      c == 2 * num - den
  IN IF s.T = 0 THEN den <= 2 * num
     ELSE c >= 0 /\ ~WLess(WScale(s.T2, c * c), WScale(s.D2, den * den))

RECURSIVE MaxOf(_)
MaxOf(s) == IF Len(s) = 1 THEN s[1] ELSE Max(s[1], MaxOf(Tail(s)))

RECURSIVE MinOf(_)
MinOf(s) == IF Len(s) = 1 THEN s[1] ELSE Min(s[1], MinOf(Tail(s)))

Sharpnesses(cols) == [c \in 1..Len(cols) |-> cols[c].edgeSharpness]

\* Math.max(...colors.map(c => c.edgeSharpness)): NaN when one is undefined
MaxSharpness(cols) ==
  IF \E c \in 1..Len(cols) : cols[c].edgeSharpness \in {Undefined, NaN}
  THEN NaN ELSE MaxOf(Sharpnesses(cols))

MinSharpness(cols) ==
  IF \E c \in 1..Len(cols) : cols[c].edgeSharpness \in {Undefined, NaN}
  THEN NaN ELSE MinOf(Sharpnesses(cols))

\* a > b for numbers of which a may be NaN
Exceeds(a, b) == a # NaN /\ a > b

CountType(contours, t) ==
  Cardinality({ c \in 1..Len(contours) : contours[c].type = t })

DistinctiveTypes == { "wave", "wisp", "ribbon", "petal" }

\* OrganicFires with the abundance condition also asking for sharpness
OrganicFiresSharpOnly(cols, sh) ==
  /\ sh # Absent
  /\ sh.style # "blobby"
  /\ Len(sh.contours) >= 2
  /\ LET maxEdgeSharpness == MaxSharpness(cols)
         distinctiveContours ==
           SelectSeq(sh.contours, LAMBDA c : c.type \in DistinctiveTypes)
         contourTypes == { sh.contours[c].type : c \in 1..Len(sh.contours) }
     IN \/ Exceeds(maxEdgeSharpness, 25)
        \/ sh.complexity > 60 /\ Exceeds(maxEdgeSharpness, 12)
        \/ /\ \/ CountType(distinctiveContours, "wave") >= 2
               \/ CountType(distinctiveContours, "petal") >= 2
           /\ Exceeds(maxEdgeSharpness, 10)
        \/ /\ Len(cols) >= 5
           /\ Len(distinctiveContours) >= 1
           /\ Len(sh.contours) >= 3
           /\ Exceeds(maxEdgeSharpness, 10)
        \/ Len(distinctiveContours) >= 3 /\ Exceeds(maxEdgeSharpness, 10)
        \/ Cardinality(contourTypes) >= 3 /\ Exceeds(maxEdgeSharpness, 10)

\* the organic test, lines 37-91
OrganicFires(cols, sh) ==
  /\ sh # Absent
  /\ sh.style # "blobby"
  /\ Len(sh.contours) >= 2
  /\ LET maxEdgeSharpness == MaxSharpness(cols)
         distinctiveContours ==
           SelectSeq(sh.contours, LAMBDA c : c.type \in DistinctiveTypes)
         contourTypes == { sh.contours[c].type : c \in 1..Len(sh.contours) }
         hasDefinedEdges == Exceeds(maxEdgeSharpness, 25)
         isComplex == sh.complexity > 60 /\ Exceeds(maxEdgeSharpness, 12)
         waveCount == CountType(distinctiveContours, "wave")
         petalCount == CountType(distinctiveContours, "petal")
         hasDistinctiveShapes ==
           (waveCount >= 2 \/ petalCount >= 2) /\ Exceeds(maxEdgeSharpness, 10)
         hasSpatialRichness ==
           /\ Len(cols) >= 5
           /\ Len(distinctiveContours) >= 1
           /\ Len(sh.contours) >= 3
           /\ Exceeds(maxEdgeSharpness, 10)
         hasAbundantDistinctive == Len(distinctiveContours) >= 3
         hasTypeDiversity ==
           Cardinality(contourTypes) >= 3 /\ Exceeds(maxEdgeSharpness, 10)
     IN \/ hasDefinedEdges
        \/ isComplex
        \/ hasDistinctiveShapes
        \/ hasSpatialRichness
        \/ hasAbundantDistinctive
        \/ hasTypeDiversity

\* LayoutStrategy with the fallback mesh test admitting three regions
LayoutStrategyMeshAtThree(cols) ==
  IF Len(cols) <= 2 THEN "simple"
  ELSE
    LET regionCount == Len(cols)
        mx == MaxSharpness(cols)
        mn == MinSharpness(cols)
        rangeBelow30 == mx # NaN /\ mx - mn < 30
        rangeAbove40 == mx # NaN /\ mx - mn > 40
        hasDominantBase ==
          MaxOf([c \in 1..Len(cols) |-> cols[c].weight]) > 50
    IN IF regionCount <= 3 /\ LinearityAbove75(cols) /\ rangeBelow30
       THEN "simple"
       ELSE IF regionCount >= 5 /\ LinearityBelow65(cols) /\ ~hasDominantBase
       THEN "mesh"
       ELSE IF hasDominantBase \/ rangeAbove40 THEN "hybrid"
       ELSE IF regionCount >= 3 /\ LinearityBelow70(cols) THEN "mesh"
       ELSE "hybrid"

\* LayoutStrategy with the hybrid test moved ahead of the first mesh test
LayoutStrategyHybridFirst(cols) ==
  IF Len(cols) <= 2 THEN "simple"
  ELSE
    LET regionCount == Len(cols)
        mx == MaxSharpness(cols)
        mn == MinSharpness(cols)
        rangeBelow30 == mx # NaN /\ mx - mn < 30
        rangeAbove40 == mx # NaN /\ mx - mn > 40
        hasDominantBase ==
          MaxOf([c \in 1..Len(cols) |-> cols[c].weight]) > 50
    IN IF regionCount <= 3 /\ LinearityAbove75(cols) /\ rangeBelow30
       THEN "simple"
       ELSE IF hasDominantBase \/ rangeAbove40 THEN "hybrid"
       ELSE IF regionCount >= 5 /\ LinearityBelow65(cols) THEN "mesh"
       ELSE IF regionCount >= 4 /\ LinearityBelow70(cols) THEN "mesh"
       ELSE "hybrid"

\* the decision logic after the organic test, lines 93-169
LayoutStrategy(cols) ==
  IF Len(cols) <= 2 THEN "simple"
  ELSE
    LET regionCount == Len(cols)
        mx == MaxSharpness(cols)
        mn == MinSharpness(cols)
        rangeBelow30 == mx # NaN /\ mx - mn < 30
        rangeAbove40 == mx # NaN /\ mx - mn > 40
        hasDominantBase ==
          MaxOf([c \in 1..Len(cols) |-> cols[c].weight]) > 50
    IN IF regionCount <= 3 /\ LinearityAbove75(cols) /\ rangeBelow30
       THEN "simple"
       ELSE IF regionCount >= 5 /\ LinearityBelow65(cols) /\ ~hasDominantBase
       THEN "mesh"
       ELSE IF hasDominantBase \/ rangeAbove40 THEN "hybrid"
       ELSE IF regionCount >= 4 /\ LinearityBelow70(cols) THEN "mesh"
       ELSE "hybrid"

\* classifyStrategy choosing mesh for many scattered regions whatever the
\* weight of the largest
classifyStrategyMeshFirst(cols, sh) ==
  IF OrganicFires(cols, sh) THEN "organic"
  ELSE IF Len(cols) >= 5 /\ LinearityBelow65(cols) THEN "mesh"
  ELSE LayoutStrategy(cols)

classifyStrategy(cols, sh) ==
  IF OrganicFires(cols, sh) THEN "organic" ELSE LayoutStrategy(cols)

(* ----------------------------- shape-analyzer -------------------------- *)
(* Points are held on an integer grid: with S = Unit(width, height) the    *)
(* normalised point (x / (width - 1), y / (height - 1)) is <<X, Y>> / S.   *)
(* For a cluster of n pixels K = n^2 * S^2; covariances are held times K   *)
(* and eigenvalues times 2 K.                                              *)

RECURSIVE Gcd(_, _)
Gcd(a, b) == IF b = 0 THEN a ELSE Gcd(b, a % b)

\* the least common multiple of the two spans
Unit(w, h) == ((w - 1) * (h - 1)) \div Gcd(w - 1, h - 1)

\* 10^6 * tan((j - 1/2) degrees) for j = 1..45
TanHalfDegrees ==
  << 8727, 26186, 43661, 61163, 78702, 96289, 113936, 131652, 149451,
     167343, 185339, 203452, 221695, 240079, 258618, 277325, 296213, 315299,
     334595, 354119, 373885, 393910, 414214, 434812, 455726, 476976, 498582,
     520567, 542956, 565773, 589045, 612801, 637070, 661886, 687281, 713293,
     739961, 767327, 795436, 824336, 854081, 884725, 916331, 948965, 982697 >>

\* tan((j - 1/2) degrees) * x <= y (or < y when strict), for x, y >= 0
HalfDegreeBelow(j, y, x, strict) ==
  LET lhs == IF j <= 45 THEN WMul(TanHalfDegrees[j], x) ELSE WMul(1000000, x)
      rhs == IF j <= 45 THEN WMul(1000000, y) ELSE WMul(TanHalfDegrees[91 - j], y)
  IN WLess(lhs, rhs) \/ (~strict /\ lhs = rhs)

\* Math.round of the angle of (x, y) in degrees, for x, y >= 0 not both 0
RoundDegrees(y, x) ==
  Cardinality({ j \in 1..90 : HalfDegreeBelow(j, y, x, FALSE) })

\* the least integer d with d + 1/2 >= the angle of (x, y) in degrees
CeilHalfDegrees(y, x) ==
  Cardinality({ j \in 1..90 : HalfDegreeBelow(j, y, x, TRUE) })

\* Math.round(((Math.atan2(evy, evx) * 180) / Math.PI + 360) % 360), evx >= 0
RoundAxisAngle(evy, evx) ==
  IF evy >= 0 THEN RoundDegrees(evy, evx)
  ELSE 360 - CeilHalfDegrees(-evy, evx)

collectClusterPixels(im, asg, clusterIdx) ==
  LET S == Unit(im.width, im.height)
      at == SelectSeq([i \in 1..NumPixels(im) |-> i],
                      LAMBDA i : asg[i] = clusterIdx)
  IN [j \in 1..Len(at) |->
        <<PixX(at[j], im.width) * (S \div (im.width - 1)),
          PixY(at[j], im.width) * (S \div (im.height - 1))>>]

\* centroid, covariance and eigenvalues of analyzeGeometry, lines 174-205:
\* sum = n S centroid, cxx cyy cxy times K, R = 2 K disc
Moments(pixels) ==
  LET n == Len(pixels)
      sx == SumSeq([j \in 1..n |-> pixels[j][1]])
      sy == SumSeq([j \in 1..n |-> pixels[j][2]])
      cxx == n * SumSeq([j \in 1..n |-> pixels[j][1] * pixels[j][1]]) - sx * sx
      cyy == n * SumSeq([j \in 1..n |-> pixels[j][2] * pixels[j][2]]) - sy * sy
      cxy == n * SumSeq([j \in 1..n |-> pixels[j][1] * pixels[j][2]]) - sx * sy
  IN [n |-> n, sum |-> <<sx, sy>>, cxx |-> cxx, cyy |-> cyy, cxy |-> cxy,
      trace |-> cxx + cyy,
      R |-> ISqrt((cxx - cyy) * (cxx - cyy) + 4 * cxy * cxy)]

\* the major axis eigenvector before it is normalised, lines 207-215
MajorVector(m) ==
  IF m.cxy # 0 THEN <<m.cxx - m.cyy + m.R, 2 * m.cxy>>
  ELSE IF m.cxx >= m.cyy THEN <<1, 0>> ELSE <<0, 1>>

\* elongation > c, for c2 = 100 c^2; eigenvalue2 is at least 0.0001
ElongationAbove(m, S, c2) ==
  LET K == m.n * m.n * S * S
  IN IF 5000 * (m.trace - m.R) < K
     THEN WLess(WMul(c2, K), WMul(500000, m.trace + m.R))
     ELSE 100 * (m.trace + m.R) > c2 * (m.trace - m.R)

ElongationBelow(m, S, c2) ==
  LET K == m.n * m.n * S * S
  IN IF 5000 * (m.trace - m.R) < K
     THEN WLess(WMul(500000, m.trace + m.R), WMul(c2, K))
     ELSE 100 * (m.trace + m.R) < c2 * (m.trace - m.R)

Cross(o, a, b) ==
  (a[1] - o[1]) * (b[2] - o[2]) - (a[2] - o[2]) * (b[1] - o[1])

RECURSIVE PopWhileNotLeft(_, _)
PopWhileNotLeft(chain, p) ==
  IF Len(chain) >= 2 /\ Cross(chain[Len(chain) - 1], chain[Len(chain)], p) <= 0
  THEN PopWhileNotLeft(SubSeq(chain, 1, Len(chain) - 1), p)
  ELSE chain

RECURSIVE HalfHull(_, _, _)
HalfHull(pts, i, chain) ==
  IF i > Len(pts) THEN chain
  ELSE HalfHull(pts, i + 1, Append(PopWhileNotLeft(chain, pts[i]), pts[i]))

ReverseSeq(s) == [i \in 1..Len(s) |-> s[Len(s) + 1 - i]]

\* Andrew's monotone chain over at most 800 of the points
convexHull(points) ==
  LET step == (Len(points) + 799) \div 800
      pts == IF Len(points) > 800
             THEN SelectSeq([i \in 1..Len(points) |->
                               IF (i - 1) % step = 0 THEN points[i] ELSE <<>>],
                            LAMBDA p : p # <<>>)
             ELSE points
      sorted == SortSeq(pts, LAMBDA a, b :
                               a[1] < b[1] \/ (a[1] = b[1] /\ a[2] < b[2]))
      lower == HalfHull(sorted, 1, <<>>)
      upper == HalfHull(ReverseSeq(sorted), 1, <<>>)
  IN IF Len(sorted) <= 2 THEN sorted
     ELSE SubSeq(lower, 1, Len(lower) - 1) \o SubSeq(upper, 1, Len(upper) - 1)

\* twice the shoelace area, in grid units
polygonArea(hull) ==
  LET n == Len(hull)
  IN Abs(SumSeq([i \in 1..n |->
                   hull[i][1] * hull[(i % n) + 1][2]
                   - hull[(i % n) + 1][1] * hull[i][2]]))

\* convexity < 0.7, where convexity is 1 for a hull without area
ConvexityBelow07(n, hull, S, imgW, imgH) ==
  polygonArea(hull) > 0 /\ 20 * n * S * S < 7 * polygonArea(hull) * imgW * imgH

\* the angle at hull[i] between the edges to its neighbours, as the pair
\* <<|cross product|, dot product>> of the two edge vectors
HullAngle(hull, i) ==
  LET n == Len(hull)
      prev == hull[((i + n - 2) % n) + 1]
      curr == hull[i]
      next == hull[(i % n) + 1]
      v1 == <<prev[1] - curr[1], prev[2] - curr[2]>>
      v2 == <<next[1] - curr[1], next[2] - curr[2]>>
  IN [skip |-> v1 = <<0, 0>> \/ v2 = <<0, 0>>,
      sin |-> Abs(v1[1] * v2[2] - v1[2] * v2[1]),
      cos |-> v1[1] * v2[1] + v1[2] * v2[2]]

\* angle a < angle b, both in 0..180 degrees
AngleLess(a, b) == a.cos * b.sin - a.sin * b.cos > 0

\* the angle exceeds deg degrees, where tanE6 = 10^6 tan(deg), deg < 90
AngleAbove(a, tanE6) ==
  a.cos <= 0 \/ WLess(WMul(tanE6, a.cos), WMul(1000000, a.sin))

\* Math.round of the angle in degrees
RoundAngle(a) ==
  IF a.cos >= 0 THEN RoundDegrees(a.sin, a.cos)
  ELSE 180 - CeilHalfDegrees(a.sin, -a.cos)

Straight == [skip |-> FALSE, sin |-> 0, cos |-> -1]

RECURSIVE MinAngleFrom(_, _, _)
MinAngleFrom(hull, i, best) ==
  IF i > Len(hull) THEN best
  ELSE LET a == HullAngle(hull, i)
       IN MinAngleFrom(hull, i + 1,
            IF ~a.skip /\ AngleLess(a, best.angle)
            THEN [angle |-> a, tip |-> hull[i]] ELSE best)

\* findMinHullAngle deciding the tip on the rounded angle
findMinHullAngleRounded(hull) ==
  IF Len(hull) < 3 THEN [minAngle |-> 180, tipPoint |-> Absent]
  ELSE LET best == MinAngleFrom(hull, 1, [angle |-> Straight, tip |-> Absent])
       IN [minAngle |-> RoundAngle(best.angle),
           tipPoint |-> IF RoundAngle(best.angle) >= 70 THEN Absent
                        ELSE best.tip]

findMinHullAngle(hull) ==
  IF Len(hull) < 3 THEN [minAngle |-> 180, tipPoint |-> Absent]
  ELSE LET best == MinAngleFrom(hull, 1, [angle |-> Straight, tip |-> Absent])
       IN [minAngle |-> RoundAngle(best.angle),
           tipPoint |-> IF AngleAbove(best.angle, 2747477) THEN Absent
                        ELSE best.tip]

\* hundredths; the turn at a vertex is 180 degrees less its hull angle
computeEdgeStraightness(hull) ==
  LET n == Len(hull)
      turn(i) == LET a == HullAngle(hull, i)
                 IN [skip |-> a.skip, sin |-> a.sin, cos |-> -a.cos]
      significantVertices ==
        Cardinality({ i \in 1..n : ~turn(i).skip /\ AngleAbove(turn(i), 466308) })
  IN IF n < 3 THEN 0
     ELSE IF \A i \in 1..n : hull[i] = hull[1] THEN 0
     ELSE IF significantVertices <= 2 THEN 90
     ELSE IF significantVertices <= 5 THEN Max(0, 100 - (significantVertices - 2) * 10)
     ELSE Max(0, 50 - (significantVertices - 5) * 6)

\* the major axis unit vector, in thousandths
UnitAxis(v) ==
  LET f == 1 + Max(Abs(v[1]), Abs(v[2])) \div 16384
      s == <<v[1] \div f, v[2] \div f>>
      len == ISqrt(s[1] * s[1] + s[2] * s[2])
  IN <<RoundDiv(1000 * s[1], len), RoundDiv(1000 * s[2], len)>>

\* 10^4 * Math.sqrt(eigenvalue1)
SqrtEigenvalue1(m, S) == RoundDiv(100 * ISqrt(5000 * (m.trace + m.R)), m.n * S)

\* The projections of analyzeCrossSections and estimateWaveFrequency and
\* their 20 bins. Offsets from the centroid are n p - sum, so projections
\* on the unit axes are in units of 1 / (1000 n S); bins are decided with
\* the axis vector before it is normalised, which leaves t unchanged.
Offsets(pixels, m) ==
  [j \in 1..m.n |-> <<m.n * pixels[j][1] - m.sum[1],
                      m.n * pixels[j][2] - m.sum[2]>>]

ProjectOn(d, axis) == [j \in 1..Len(d) |-> d[j][1] * axis[1] + d[j][2] * axis[2]]

\* Math.min(BINS - 1, Math.floor(t * BINS)) per pixel
BinOf(along, lo, hi) ==
  [j \in 1..Len(along) |->
     IF hi = lo THEN 0 ELSE Min(19, (20 * (along[j] - lo)) \div (hi - lo))]

SetMax(vals) == CHOOSE hi \in vals : \A o \in vals : o <= hi

SetMin(vals) == CHOOSE lo \in vals : \A o \in vals : lo <= o

\* the bins holding at least 2 pixels, in order
UsedBins(bin) ==
  SelectSeq([i \in 1..20 |-> i - 1],
            LAMBDA i : Cardinality({ j \in 1..Len(bin) : bin[j] = i }) >= 2)

BinStats(major, minor, bin, used) ==
  [majorSpan |-> MaxOf(major) - MinOf(major),
   centres |-> [b \in 1..Len(used) |->
                  SumOver({ j \in 1..Len(bin) : bin[j] = used[b] }, minor)
                    \div Cardinality({ j \in 1..Len(bin) : bin[j] = used[b] })],
   widths |-> [b \in 1..Len(used) |->
                 SetMax({ minor[j] : j \in { o \in 1..Len(bin) : bin[o] = used[b] } })
                 - SetMin({ minor[j] : j \in { o \in 1..Len(bin) : bin[o] = used[b] } })]]

BinsAlong(along) == BinOf(along, MinOf(along), MaxOf(along))

SectionsOf(d, u, bin) ==
  BinStats(ProjectOn(d, u), ProjectOn(d, <<-u[2], u[1]>>), bin, UsedBins(bin))

Sections(pixels, m, v) ==
  SectionsOf(Offsets(pixels, m), UnitAxis(v),
             BinsAlong(ProjectOn(Offsets(pixels, m), v)))

\* Math.sqrt of the mean squared deviation of the centres, in units of
\* 1 / (1000 S)
CentreDeviation(centres, mean, n) ==
  ISqrt(SumSeq([b \in 1..Len(centres) |->
                  ((centres[b] - mean) \div n) * ((centres[b] - mean) \div n)])
        \div Len(centres))

\* sinuosity in hundredths, avgThickness in units of 10^-4; thin is
\* avgThickness < 0.06, which the early return decides on the unrounded
\* average
CrossSectionsOf(sec, n, S, count, total) ==
  IF 100 * sec.majorSpan < 1000 * n * S
  THEN [sinuosity |-> 0, avgThickness |-> 0, thin |-> TRUE]
  ELSE IF count < 3
  THEN [sinuosity |-> 0,
        avgThickness |-> IF count > 0 THEN RoundDiv(10 * total, count * n * S)
                         ELSE 0,
        thin |-> count = 0 \/ 100 * total < 6 * count * 1000 * n * S]
  ELSE [sinuosity |->
          Min(100, RoundDiv(1000 * CentreDeviation(sec.centres,
                                     SumSeq(sec.centres) \div count, n),
                            3 * (sec.majorSpan \div n))),
        avgThickness |-> 100 * RoundDiv(100 * total, count * 1000 * n * S),
        thin |-> RoundDiv(100 * total, count * 1000 * n * S) < 6]

SectionSummary(sec, n, S) ==
  CrossSectionsOf(sec, n, S, Len(sec.centres), SumSeq(sec.widths))

analyzeCrossSections(pixels, m, v, S) ==
  SectionSummary(Sections(pixels, m, v), m.n, S)

\* ClusterGeometry; elongation is read through ElongationAbove/Below on
\* moments, avgThickness is in units of 10^-4, sinuosity and
\* edgeStraightness in hundredths, points are grid points over S
GeometryRecord(pixels, imgW, imgH, S, m, v, hull, tip, sec) ==
  [pixels |-> pixels, S |-> S, moments |-> m,
   centroid |-> [x |-> m.sum[1], y |-> m.sum[2], den |-> m.n * S],
   majorAxisAngle |-> RoundAxisAngle(v[2], v[1]),
   majorVector |-> v,
   majorAxis |-> UnitAxis(v),
   areaAbove006 |-> 100 * m.n > 6 * imgW * imgH,
   hull |-> hull,
   convexityBelow07 |-> ConvexityBelow07(m.n, hull, S, imgW, imgH),
   minHullAngle |-> tip.minAngle,
   tipPoint |-> tip.tipPoint,
   sinuosity |-> sec.sinuosity,
   avgThickness |-> sec.avgThickness,
   thin |-> sec.thin,
   edgeStraightness |-> computeEdgeStraightness(hull)]

GeometryFrom(pixels, imgW, imgH, S, m, v, hull) ==
  GeometryRecord(pixels, imgW, imgH, S, m, v, hull, findMinHullAngle(hull),
                 analyzeCrossSections(pixels, m, v, S))

GeometryOf(pixels, imgW, imgH, m) ==
  GeometryFrom(pixels, imgW, imgH, Unit(imgW, imgH), m, MajorVector(m),
               convexHull(pixels))

analyzeGeometry(pixels, imgW, imgH) ==
  GeometryOf(pixels, imgW, imgH, Moments(pixels))

NoShape == "null"

\* classifyShape testing the wave rule before the petal rule
classifyShapeWaveFirst(g) ==
  IF ElongationAbove(g.moments, g.S, 625) /\ g.sinuosity > 12
  THEN "wave"
  ELSE IF /\ g.convexityBelow07
          /\ g.minHullAngle < 70
          /\ g.tipPoint # Absent
          /\ ElongationAbove(g.moments, g.S, 169)
          /\ ElongationBelow(g.moments, g.S, 2500)
  THEN "petal"
  ELSE IF ElongationAbove(g.moments, g.S, 1225) /\ g.thin
  THEN "wisp"
  ELSE IF ElongationAbove(g.moments, g.S, 625) /\ ~g.thin /\ g.sinuosity < 12
  THEN "ribbon"
  ELSE IF g.areaAbove006 /\ ElongationBelow(g.moments, g.S, 784)
          /\ g.edgeStraightness >= 50
  THEN "angular-veil"
  ELSE IF g.areaAbove006 /\ ElongationBelow(g.moments, g.S, 784)
          /\ g.edgeStraightness < 50
  THEN "veil"
  ELSE NoShape

classifyShape(g) ==
  IF /\ g.convexityBelow07
     /\ g.minHullAngle < 70
     /\ g.tipPoint # Absent
     /\ ElongationAbove(g.moments, g.S, 169)
     /\ ElongationBelow(g.moments, g.S, 2500)
  THEN "petal"
  ELSE IF ElongationAbove(g.moments, g.S, 625) /\ g.sinuosity > 12
  THEN "wave"
  ELSE IF ElongationAbove(g.moments, g.S, 1225) /\ g.thin
  THEN "wisp"
  ELSE IF ElongationAbove(g.moments, g.S, 625) /\ ~g.thin /\ g.sinuosity < 12
  THEN "ribbon"
  ELSE IF g.areaAbove006 /\ ElongationBelow(g.moments, g.S, 784)
          /\ g.edgeStraightness >= 50
  THEN "angular-veil"
  ELSE IF g.areaAbove006 /\ ElongationBelow(g.moments, g.S, 784)
          /\ g.edgeStraightness < 50
  THEN "veil"
  ELSE NoShape

\* Math.max(1, Math.round(zeroCrossings / 2))
estimateWaveFrequency(g) ==
  LET sec == Sections(g.pixels, g.moments, g.majorVector)
      count == Len(sec.centres)
      globalMean == IF count = 0 THEN 0 ELSE SumSeq(sec.centres) \div count
      sign(b) == IF sec.centres[b] - globalMean > 0 THEN 1 ELSE -1
      zeroCrossings == Cardinality({ b \in 2..count : sign(b) # sign(b - 1) })
  IN IF 100 * sec.majorSpan < 1000 * g.moments.n * g.S THEN 1
     ELSE Max(1, (zeroCrossings + 1) \div 2)

\* round2 of centroid + step * direction * Math.sqrt(eigenvalue1), clamped
\* to [0, 1] before rounding when clamp holds; dir is in thousandths
AlongAxis(g, dir, step, clamp) ==
  LET root == SqrtEigenvalue1(g.moments, g.S)
      at(c, u) == RoundDiv(1000000 * c, g.centroid.den) + (step * u * root) \div 10
      cut(t) == IF clamp THEN Max(0, Min(1000000, t)) ELSE t
  IN [x |-> RoundDiv(cut(at(g.centroid.x, dir[1])), 10000),
      y |-> RoundDiv(cut(at(g.centroid.y, dir[2])), 10000),
      den |-> 100]

projectToEdge(g, sign) == AlongAxis(g, g.majorAxis, 3 * sign, TRUE)

\* the unit vector from the centroid to the tip, or the major axis
TipDirection(g) ==
  LET tx == g.moments.n * g.tipPoint[1] - g.centroid.x
      ty == g.moments.n * g.tipPoint[2] - g.centroid.y
      len == ISqrt(100 * (tx * tx + ty * ty))
  IN IF g.tipPoint = Absent THEN g.majorAxis
     ELSE IF len = 0 THEN <<0, 0>>
     ELSE <<RoundDiv(10000 * tx, len), RoundDiv(10000 * ty, len)>>

simplifyHull(hull, maxVertices, S) ==
  LET n == Len(hull)
      rounded(p) == [x |-> RoundDiv(100 * p[1], S), y |-> RoundDiv(100 * p[2], S),
                     den |-> 100]
      turn(i) == LET a == HullAngle(hull, i) IN IF a.skip THEN Straight ELSE a
      before(i) == { j \in 1..n : \/ AngleLess(turn(j), turn(i))
                                  \/ (~AngleLess(turn(i), turn(j)) /\ j < i) }
      kept == SelectSeq([i \in 1..n |-> i],
                        LAMBDA i : n <= maxVertices
                                   \/ Cardinality(before(i)) < maxVertices)
  IN [j \in 1..Len(kept) |-> rounded(hull[kept[j]])]

buildContour(type, g, color) ==
  LET base == [type |-> type,
               position |-> g.centroid,
               direction |-> g.majorAxisAngle,
               curvature |-> 100 - g.edgeStraightness,
               thickness |-> RoundDiv(g.avgThickness, 100),
               blur |-> 100 - color.edgeSharpness,
               color |-> color.hex,
               opacity |-> Min(90, 30 + color.weight)]
      ends == [startPoint |-> projectToEdge(g, -1),
               endPoint |-> projectToEdge(g, 1)]
      tipAt == [x |-> g.tipPoint[1], y |-> g.tipPoint[2], den |-> g.S]
      petal == [bodyWidth |->
                  RoundDiv(100 * g.avgThickness,
                           Max(100, 4 * SqrtEigenvalue1(g.moments, g.S))),
                startPoint |-> AlongAxis(g, TipDirection(g), -2, FALSE),
                endPoint |-> IF g.tipPoint = Absent THEN g.centroid ELSE tipAt]
  IN IF type = "wave"
     THEN base @@ ends @@ [amplitude |-> g.sinuosity,
                           frequency |-> estimateWaveFrequency(g)]
     ELSE IF type \in {"wisp", "ribbon"} THEN base @@ ends
     ELSE IF type = "petal"
     THEN IF g.tipPoint = Absent THEN base @@ petal
          ELSE base @@ petal @@ [tipPoint |-> tipAt]
     ELSE IF type = "angular-veil"
     THEN base @@ [vertices |-> simplifyHull(g.hull, 6, g.S)]
     ELSE base

StyleGroup(type) ==
  IF type = "petal" THEN "organic"
  ELSE IF type \in {"wave", "wisp", "ribbon"} THEN "wavy"
  ELSE IF type = "angular-veil" THEN "angular"
  ELSE "mixed"

\* the group counted most often, the one met first among equals
computeStyle(contours) ==
  LET n == Len(contours)
      group(i) == StyleGroup(contours[i].type)
      count(i) == Cardinality({ j \in 1..n : group(j) = group(i) })
      first(i) == \A j \in 1..(i - 1) : group(j) # group(i)
      best == CHOOSE i \in 1..n :
                /\ first(i)
                /\ \A j \in 1..n : count(j) <= count(i)
                /\ \A j \in 1..(i - 1) : count(j) < count(i)
  IN IF n = 0 THEN "blobby"
     ELSE IF 2 * count(best) <= n /\ Cardinality({ group(i) : i \in 1..n }) > 1
     THEN "mixed"
     ELSE group(best)

\* hundredths
computeComplexity(contours, numColors) ==
  LET n == Len(contours)
      den == Max(1, numColors)
      types == Cardinality({ contours[i].type : i \in 1..n })
      blurs == [i \in 1..n |-> contours[i].blur]
      hasPetals == \E i \in 1..n : contours[i].type = "petal"
  IN IF n = 0 THEN 0
     ELSE Min(100, RoundDiv(9000 * Min(n, den)
                            + 2500 * den * Min(3, types)
                            + 75 * den * (MaxOf(blurs) - MinOf(blurs))
                            + (IF hasPetals THEN 6000 * den ELSE 0),
                            300 * den))

\* 10^6 * tan(10 j degrees) for j = 1..8
TanTenDegrees ==
  << 176327, 363970, 577350, 839100, 1191754, 1732051, 2747477, 5671282 >>

\* Math.floor(angle / 10) % 36 for the angle of (gx, gy) in [0, 360)
OrientationBin(gx, gy) ==
  LET q == IF gx > 0 /\ gy >= 0 THEN 0
           ELSE IF gx <= 0 /\ gy > 0 THEN 1
           ELSE IF gx < 0 /\ gy <= 0 THEN 2 ELSE 3
      a == IF q = 0 THEN gx ELSE IF q = 1 THEN gy ELSE IF q = 2 THEN -gx ELSE -gy
      b == IF q = 0 THEN gy ELSE IF q = 1 THEN -gx ELSE IF q = 2 THEN -gy ELSE gx
  IN 9 * q + Cardinality({ j \in 1..8 : TanTenDegrees[j] * a <= 1000000 * b })

\* the histogram holds magnitudes in hundredths
computeFlowDirection(im) ==
  LET gx(x, y) == LumAt(im, x + 1, y) - LumAt(im, x - 1, y)
      gy(x, y) == LumAt(im, x, y + 1) - LumAt(im, x, y - 1)
      sq(x, y) == gx(x, y) * gx(x, y) + gy(x, y) * gy(x, y)
      inner == (1..(im.width - 2)) \X (1..(im.height - 2))
      histogram == [b \in 0..35 |->
        SumOver({ q \in inner : sq(q[1], q[2]) >= 4
                                /\ OrientationBin(gx(q[1], q[2]), gy(q[1], q[2])) = b },
                [q \in inner |-> ISqrt(10000 * sq(q[1], q[2]))])]
      smoothed == [b \in 0..35 |->
        histogram[(b + 35) % 36] + 2 * histogram[b] + histogram[(b + 1) % 36]]
      maxBin == CHOOSE b \in 0..35 :
                  /\ \A o \in 0..35 : smoothed[o] <= smoothed[b]
                  /\ \A o \in 0..(b - 1) : smoothed[o] < smoothed[b]
  IN (10 * maxBin + 95) % 360

\* BackgroundIndex choosing the region of the lowest weight
BackgroundIndexLightest(cols) ==
  CHOOSE b \in 1..Len(cols) :
    /\ \A c \in 1..Len(cols) : cols[c].weight >= cols[b].weight
    /\ \A c \in 1..(b - 1) : cols[c].weight > cols[b].weight

\* the first region of the highest weight
BackgroundIndex(cols) ==
  CHOOSE b \in 1..Len(cols) :
    /\ \A c \in 1..Len(cols) : cols[c].weight <= cols[b].weight
    /\ \A c \in 1..(b - 1) : cols[c].weight < cols[b].weight

\* the contour of a cluster with geometry g, if it is not a blob
ContourOf(type, g, color) ==
  IF type = NoShape THEN <<>> ELSE <<buildContour(type, g, color)>>

ClusterContour(g, color) == ContourOf(classifyShape(g), g, color)

PixelsContour(pixels, im, color) ==
  IF Len(pixels) < 20 THEN <<>>
  ELSE ClusterContour(analyzeGeometry(pixels, im.width, im.height), color)

RECURSIVE ContoursFrom(_, _, _, _)
ContoursFrom(im, cols, asg, i) ==
  IF i > Len(cols) THEN <<>>
  ELSE (IF i = BackgroundIndex(cols) THEN <<>>
        ELSE PixelsContour(collectClusterPixels(im, asg, i), im, cols[i]))
       \o ContoursFrom(im, cols, asg, i + 1)

ShapeInfoOf(contours, numColors, flowDirection) ==
  [complexity |-> computeComplexity(contours, numColors),
   flowDirection |-> flowDirection,
   style |-> computeStyle(contours),
   contours |-> contours]

analyzeShapes(im, cols, asg) ==
  ShapeInfoOf(ContoursFrom(im, cols, asg, 1), Len(cols), computeFlowDirection(im))

(* --------------------- inputs of classifyStrategy ---------------------- *)

ShapeTypes == <<"wave", "wisp", "ribbon", "petal", "veil", "angular-veil">>

\* contour lists of length m, one per multiset of types
ContourLists(m) ==
  { [c \in 1..m |-> [type |-> ShapeTypes[f[c]]]] :
      f \in { g \in [1..m -> 1..6] : \A c \in 1..(m - 1) : g[c] <= g[c + 1] } }

ShapeInputs ==
  {Absent} \cup
  { [complexity |-> cs[1], style |-> cs[2], contours |-> cl] :
      cs \in { <<60, "mixed">>, <<61, "mixed">>, <<61, "blobby">> },
      cl \in UNION { ContourLists(m) : m \in 0..MaxContours } }

\* region j of n: the corners of a W x H rectangle in turn, then its centre
LayoutPosition(box, j) ==
  IF j > 4 THEN [x |-> box[1] \div 2, y |-> box[2] \div 2]
  ELSE [x |-> IF j % 2 = 0 THEN box[1] ELSE 0,
        y |-> IF j \in {2, 3} THEN box[2] ELSE 0]

\* even weights, a first region of exactly half, or one above half
ProfileWeight(profile, j, n) ==
  IF profile = "even" \/ n = 1 THEN RoundDiv(100, n)
  ELSE LET first == IF profile = "half" THEN 50 ELSE 52
       IN IF j = 1 THEN first ELSE RoundDiv(100 - first, n - 1)

MakeRegion(box, profile, sharp, j, n) ==
  [hex |-> rgbToHex(40 * j, 40 * j, 40 * j),
   rgb |-> <<40 * j, 40 * j, 40 * j>>,
   position |-> LayoutPosition(box, j),
   weight |-> ProfileWeight(profile, j, n),
   spread |-> 50,
   edgeSharpness |-> IF j = 1 THEN sharp[2] ELSE sharp[1]]

ColorInputs ==
  { [j \in 1..n |-> MakeRegion(box, profile, sharp, j, n)] :
      n \in 1..MaxRegions,
      box \in { <<0, 0>>, <<100, 0>>, <<100, 65>>, <<100, 70>>, <<100, 100>> },
      profile \in { "even", "half", "dominant" },
      sharp \in { <<0, 10>>, <<0, 11>>, <<0, 12>>, <<0, 13>>, <<0, 25>>,
                  <<0, 26>>, <<0, 30>>, <<0, 40>>, <<0, 41>>, <<50, 50>> } }

(* ------------------------- extractColors claims ------------------------ *)

\* extractColors has returned
Built == pc \notin {"seed", "kmeans", "build"}

WeightSum == SumSeq([j \in 1..Len(colors) |-> colors[j].weight])

NonEmptyClusters ==
  { c \in 1..Len(centroids) : Members(assignments, c) # {} }

IsFlat(im) == \A i \in 1..NumPixels(im) : im.data[i] = im.data[1]

\* C1 (as stated): the rounded weights of the returned regions sum to a
\* value within 1.0 +/- 0.05, for every buffer and every k >= 1.
C1_WeightSumWithinTolerance ==
  Built => Abs(WeightSum - 100) <= 5

\* C1 (amended): the sum of the rounded weights differs from 1.0 by at most
\* 0.005 per returned region, hence it is within 1.0 +/- 0.05 whenever at
\* most 10 regions are returned.
C1_WeightSumPerRegion ==
  Built => /\ 2 * Abs(WeightSum - 100) <= Len(colors)
           /\ Len(colors) <= 10 => Abs(WeightSum - 100) <= 5

C1_Witness ==
  /\ Built
  /\ Len(colors) >= 6
  /\ Len(colors) <= 10
  /\ WeightSum # 100

\* C4: on a buffer of one colour, for every k and every seeding, the loop
\* stops at its first iteration and exactly one region is returned, of
\* weight 1.0 and of that colour; the other k-1 clusters hold no pixel.
C4_FlatImageOneRegion ==
  IsFlat(img) =>
    /\ iter = 0
    /\ Built =>
         /\ Len(colors) = 1
         /\ colors[1].weight = 100
         /\ colors[1].rgb = img.data[1]
         /\ Cardinality(NonEmptyClusters) = 1
         /\ Len(centroids) = k

C4_Witness ==
  /\ Built
  /\ IsFlat(img)
  /\ k >= 2
  /\ Len(colors) = 1

\* the regions whose colour and position are the means over the pixels
\* assigned to each cluster at the end of the loop
MeanRegions ==
  BuildResults(img, Recompute(img, centroids, assignments), assignments)

\* C5: every returned region has the rounded mean colour and the rounded
\* mean position of the pixels assigned to its cluster at the end of the loop.
C5_RegionsAreClusterMeans ==
  Built =>
    /\ Len(colors) = Len(MeanRegions)
    /\ \A j \in 1..Len(colors) :
         /\ colors[j].rgb = MeanRegions[j].rgb
         /\ colors[j].position = MeanRegions[j].position

\* C6: between 1 and k regions are returned, one per cluster that holds a
\* pixel at the end of the loop and none for the others.
C6_OneRegionPerNonEmptyCluster ==
  Built =>
    /\ Len(colors) >= 1
    /\ Len(colors) <= k
    /\ Len(colors) = Cardinality(NonEmptyClusters)
    /\ \A c \in NonEmptyClusters :
         \E j \in 1..Len(colors) :
           colors[j].weight =
             Weight(Cardinality(Members(assignments, c)), NumPixels(img))

C6_Witness ==
  /\ Built
  /\ Len(colors) >= 2
  /\ Len(colors) < k

(* ------------------------------ actions -------------------------------- *)

\* kMeansPlusPlusInit, one centroid per step
SeedStep ==
  /\ pc = "seed"
  /\ \E rn \in rands :
       LET pick == SeedPick(img, centroids, rn)
           next == Append(centroids, SampleCentroid(img, pick))
       IN /\ centroids' = next
          /\ pc' = IF Len(next) = k THEN "kmeans" ELSE "seed"
  /\ UNCHANGED <<geom, cli, img, k, maxIter, rands, calls, assignments, iter, colors,
                 eassign, noise, blur, vignette, mood, shapes, strategy,
                 result>>

\* one iteration of the k-means loop
KMeansStep ==
  /\ pc = "kmeans"
  /\ iter < maxIter
  /\ LET asg == AssignAll(img, centroids)
         changed == asg # assignments
     IN /\ assignments' = asg
        /\ IF ~changed
           THEN /\ pc' = "build"
                /\ UNCHANGED <<centroids, iter>>
           ELSE /\ centroids' = Recompute(img, centroids, asg)
                /\ iter' = iter + 1
                /\ pc' = IF iter + 1 < maxIter THEN "kmeans" ELSE "build"
  /\ UNCHANGED <<geom, cli, img, k, maxIter, rands, calls, colors, eassign, noise, blur,
                 vignette, mood, shapes, strategy, result>>

\* step 4 of extractColors: build, sort and return the regions
BuildStep ==
  /\ pc = "build"
  /\ colors' = BuildResults(img, centroids, assignments)
  /\ calls' = Append(calls, "extractColors")
  /\ pc' = "noise"
  /\ UNCHANGED <<geom, cli, img, k, maxIter, rands, centroids, assignments, iter,
                 eassign, noise, blur, vignette, mood, shapes, strategy,
                 result>>

AnalyzeNoiseStep ==
  /\ pc = "noise"
  /\ noise' = analyzeNoise(img)
  /\ calls' = Append(calls, "analyzeNoise")
  /\ pc' = "blur"
  /\ UNCHANGED <<geom, cli, img, k, maxIter, rands, centroids, assignments, iter, colors,
                 eassign, blur, vignette, mood, shapes, strategy, result>>

\* AnalyzeBlurStep converting the buffer to greyscale in place
AnalyzeBlurStepInPlace ==
  /\ pc = "blur"
  /\ blur' = analyzeBlur(img)
  /\ img' = [img EXCEPT !.data = [i \in 1..NumPixels(img) |->
                                   <<Lum(img.data[i]), Lum(img.data[i]),
                                     Lum(img.data[i])>>]]
  /\ calls' = Append(calls, "analyzeBlur")
  /\ pc' = "vignette"
  /\ UNCHANGED <<geom, cli, k, maxIter, rands, centroids, assignments, iter, colors,
                 eassign, noise, vignette, mood, shapes, strategy, result>>

AnalyzeBlurStep ==
  /\ pc = "blur"
  /\ blur' = analyzeBlur(img)
  /\ calls' = Append(calls, "analyzeBlur")
  /\ pc' = "vignette"
  /\ UNCHANGED <<geom, cli, img, k, maxIter, rands, centroids, assignments, iter, colors,
                 eassign, noise, vignette, mood, shapes, strategy, result>>

DetectVignetteStep ==
  /\ pc = "vignette"
  /\ vignette' = detectVignette(img)
  /\ calls' = Append(calls, "detectVignette")
  /\ pc' = "mood"
  /\ UNCHANGED <<geom, cli, img, k, maxIter, rands, centroids, assignments, iter, colors,
                 eassign, noise, blur, mood, shapes, strategy, result>>

DetectMoodStep ==
  /\ pc = "mood"
  /\ mood' = detectMood(img)
  /\ calls' = Append(calls, "detectMood")
  /\ pc' = "assign"
  /\ UNCHANGED <<geom, cli, img, k, maxIter, rands, centroids, assignments, iter, colors,
                 eassign, noise, blur, vignette, shapes, strategy, result>>

AssignStep ==
  /\ pc = "assign"
  /\ eassign' = assignPixelsToClusters(img, colors)
  /\ calls' = Append(calls, "assignPixelsToClusters")
  /\ pc' = "edge"
  /\ UNCHANGED <<geom, cli, img, k, maxIter, rands, centroids, assignments, iter, colors,
                 noise, blur, vignette, mood, shapes, strategy, result>>

\* computeEdgeSharpness mutates the regions in place
EdgeSharpnessStep ==
  /\ pc = "edge"
  /\ colors' = computeEdgeSharpness(img, colors, eassign)
  /\ calls' = Append(calls, "computeEdgeSharpness")
  /\ pc' = "classify"
  /\ UNCHANGED <<geom, cli, img, k, maxIter, rands, centroids, assignments, iter,
                 eassign, noise, blur, vignette, mood, shapes, strategy,
                 result>>

\* const strategy = classifyStrategy(colors): no ShapeInfo is passed
ClassifyStep ==
  /\ pc = "classify"
  /\ strategy' = classifyStrategy(colors, Absent)
  /\ calls' = Append(calls, "classifyStrategy")
  /\ pc' = "return"
  /\ UNCHANGED <<geom, cli, img, k, maxIter, rands, centroids, assignments, iter, colors,
                 eassign, noise, blur, vignette, mood, shapes, result>>

\* the GradientSpec literal returned by analyzeImage
ReturnStep ==
  /\ pc = "return"
  /\ result' = [colors |-> colors, noise |-> noise, blur |-> blur,
                vignette |-> vignette,
                dimensions |-> [width |-> img.originalWidth,
                                height |-> img.originalHeight],
                mood |-> mood, strategy |-> strategy]
  /\ pc' = "done"
  /\ UNCHANGED <<geom, cli, img, k, maxIter, rands, calls, centroids, assignments, iter,
                 colors, eassign, noise, blur, vignette, mood, shapes,
                 strategy>>

InitCommon ==
  /\ pc = "seed"
  /\ calls = <<>>
  /\ centroids = <<>>
  /\ assignments = [i \in 1..NumPixels(img) |-> 1]
  /\ iter = 0
  /\ colors = <<>>
  /\ eassign = <<>>
  /\ noise = Absent
  /\ blur = Absent
  /\ vignette = Absent
  /\ mood = Absent
  /\ shapes = Absent
  /\ geom = Absent
  /\ strategy = NoStrategy
  /\ result = Absent
  /\ cli = Absent

Init ==
  /\ img \in SmallImages
  /\ k \in 1..MaxK
  /\ maxIter \in {ShortIter, DefaultMaxIter}
  /\ rands = 0..(RandDen - 1)
  /\ InitCommon

InitTone ==
  /\ img \in ToneImages
  /\ k \in 1..2
  /\ maxIter = DefaultMaxIter
  /\ rands = 0..(RandDen - 1)
  /\ InitCommon

InitWide ==
  /\ img = WideImage
  /\ k \in 1..WideK
  /\ maxIter \in {ShortIter, DefaultMaxIter}
  /\ rands = {1}
  /\ InitCommon

Next ==
  \/ SeedStep
  \/ KMeansStep
  \/ BuildStep
  \/ AnalyzeNoiseStep
  \/ AnalyzeBlurStep
  \/ DetectVignetteStep
  \/ DetectMoodStep
  \/ AssignStep
  \/ EdgeSharpnessStep
  \/ ClassifyStep
  \/ ReturnStep

(* ------------------------- classifyStrategy claims --------------------- *)

\* the largest edgeSharpness among the regions handed to the classifier
MaxEdge ==
  CHOOSE m \in { colors[c].edgeSharpness : c \in 1..Len(colors) } :
    \A c \in 1..Len(colors) : colors[c].edgeSharpness <= m

MinEdge ==
  CHOOSE m \in { colors[c].edgeSharpness : c \in 1..Len(colors) } :
    \A c \in 1..Len(colors) : colors[c].edgeSharpness >= m

\* the number of contours whose type lies in the set T
NumContours(T) ==
  Cardinality({ c \in 1..Len(shapes.contours) : shapes.contours[c].type \in T })

NumContourTypes ==
  Cardinality({ shapes.contours[c].type : c \in 1..Len(shapes.contours) })

\* C2: classifyStrategy returns "organic" if and only if shapes is present,
\* its style is not "blobby", it has at least 2 contours, and one of six
\* conditions holds: M > 0.25; complexity > 0.6 and M > 0.12; two waves or
\* two petals and M > 0.10; 5 colors, a distinctive contour, 3 contours and
\* M > 0.10; 3 distinctive contours; 3 distinct contour types and M > 0.10.
C2_OrganicIffGateAndCondition ==
  pc = "called" =>
    (strategy = "organic" <=>
       /\ shapes # Absent
       /\ shapes.style # "blobby"
       /\ Len(shapes.contours) >= 2
       /\ \/ MaxEdge > 25
          \/ shapes.complexity > 60 /\ MaxEdge > 12
          \/ /\ NumContours({"wave"}) >= 2 \/ NumContours({"petal"}) >= 2
             /\ MaxEdge > 10
          \/ /\ Len(colors) >= 5
             /\ NumContours(DistinctiveTypes) >= 1
             /\ Len(shapes.contours) >= 3
             /\ MaxEdge > 10
          \/ NumContours(DistinctiveTypes) >= 3
          \/ NumContourTypes >= 3 /\ MaxEdge > 10)

\* organic returned on the strength of three distinctive contours alone
C2_Witness ==
  /\ pc = "called"
  /\ strategy = "organic"
  /\ MaxEdge <= 10
  /\ shapes.complexity > 60

\* the rules of the decision order, each a condition and its result
LayoutRules ==
  LET n == Len(colors)
      sharpnessRange == MaxEdge - MinEdge
      dominant == \E c \in 1..n : colors[c].weight > 50
  IN << <<n <= 2, "simple">>,
        <<n <= 3 /\ LinearityAbove75(colors) /\ sharpnessRange < 30, "simple">>,
        <<n >= 5 /\ LinearityBelow65(colors) /\ ~dominant, "mesh">>,
        <<dominant \/ sharpnessRange > 40, "hybrid">>,
        <<n >= 4 /\ LinearityBelow70(colors), "mesh">>,
        <<TRUE, "hybrid">> >>

FirstMatchingRule ==
  CHOOSE i \in 1..Len(LayoutRules) :
    LayoutRules[i][1] /\ \A j \in 1..(i - 1) : ~LayoutRules[j][1]

\* C3: a result of classifyStrategy other than organic is simple for at
\* most 2 regions and otherwise the result of the first matching rule of
\* the decision order; the result is one of simple, mesh, hybrid, organic.
C3_FirstMatchingRule ==
  pc = "called" =>
    /\ strategy \in { "simple", "mesh", "hybrid", "organic" }
    /\ strategy # "organic" => strategy = LayoutRules[FirstMatchingRule][2]
    /\ Len(colors) = 1 /\ strategy # "organic" => strategy = "simple"

\* the first mesh rule wins over a wide sharpness range, shapes present
C3_Witness ==
  /\ pc = "called"
  /\ shapes # Absent
  /\ strategy = "mesh"
  /\ FirstMatchingRule = 3
  /\ MaxEdge - MinEdge > 40

(* --------------------------- analyzeImage claims ----------------------- *)

\* call number i of analyzeImage precedes call number j, both having happened
CalledBefore(a, b) ==
  \E i, j \in 1..Len(calls) : i < j /\ calls[i] = a /\ calls[j] = b

\* C7: classifyStrategy is called only after computeEdgeSharpness has run
\* on the regions of extractColors; at that point every region has an
\* edgeSharpness in [0,1], and a region for which no boundary pixel was
\* counted has edgeSharpness exactly 0.
C7_SharpnessReadyForClassifier ==
  /\ pc = "classify" =>
       /\ CalledBefore("extractColors", "computeEdgeSharpness")
       /\ \A c \in 1..Len(colors) :
            /\ colors[c].edgeSharpness \in 0..100
            /\ CountedFor(img, eassign, c) = {} => colors[c].edgeSharpness = 0
  /\ strategy # NoStrategy /\ pc # "called" =>
       CalledBefore("computeEdgeSharpness", "classifyStrategy")

\* the classifier is about to run on a region without boundary pixels and
\* a region whose boundary gradient reaches the cap
C7_Witness ==
  /\ pc = "classify"
  /\ \E c, d \in 1..Len(colors) :
       /\ CountedFor(img, eassign, c) = {}
       /\ colors[c].edgeSharpness = 0
       /\ CountedFor(img, eassign, d) # {}
       /\ colors[d].edgeSharpness = 100

\* a region with its edgeSharpness field left out of the comparison
WithoutSharpness(region) == [region EXCEPT !.edgeSharpness = Undefined]

\* C8: computeEdgeSharpness writes only the edgeSharpness field: the number
\* and order of the regions (the descending-weight order of extractColors),
\* each region's hex, rgb, position, weight and spread, the assignments
\* array and the pixel buffer are unchanged by the call.
C8_EdgePassWritesOnlySharpness ==
  [][pc = "edge" =>
       /\ img' = img
       /\ eassign' = eassign
       /\ Len(colors') = Len(colors)
       /\ \A c \in 1..Len(colors) :
            WithoutSharpness(colors'[c]) = WithoutSharpness(colors[c])
       /\ \A c \in 1..(Len(colors) - 1) :
            colors'[c].weight >= colors'[c + 1].weight]_vars

\* after the pass a lighter region is sharper than a heavier one
C8_Witness ==
  /\ pc = "classify"
  /\ \E c, d \in 1..Len(colors) :
       /\ c < d
       /\ colors[c].weight > colors[d].weight
       /\ colors[c].edgeSharpness < colors[d].edgeSharpness

\* C9: analyzeImage runs the shape analysis after the edge-sharpness pass
\* and passes the resulting ShapeInfo to classifyStrategy, so the returned
\* strategy is computed from colors and shapes, and the returned spec
\* carries the shapes it was classified with.
C9_ShapesFeedClassifier ==
  pc = "done" =>
    /\ CalledBefore("computeEdgeSharpness", "analyzeShapes")
    /\ CalledBefore("analyzeShapes", "classifyStrategy")
    /\ shapes # Absent
    /\ "shapes" \in DOMAIN result
    /\ result.shapes = shapes
    /\ result.strategy = classifyStrategy(result.colors, shapes)

\* C10: analyzeBlur, analyzeNoise, detectVignette and detectMood neither
\* write the pixel buffer nor touch state shared with each other or with
\* extractColors: each result is a function of the buffer alone, so it is
\* the same wherever in the order of calls it is computed.
C10_AnalyzersIndependent ==
  /\ [](/\ noise # Absent => noise = analyzeNoise(img)
        /\ blur # Absent => blur = analyzeBlur(img)
        /\ vignette # Absent => vignette = detectVignette(img)
        /\ mood # Absent => mood = detectMood(img)
        /\ pc = "done" =>
             /\ result.noise = analyzeNoise(img)
             /\ result.blur = analyzeBlur(img)
             /\ result.vignette = detectVignette(img)
             /\ result.mood = detectMood(img))
  /\ [][/\ img' = img
        /\ pc \in { "noise", "blur", "vignette", "mood" } =>
             /\ colors' = colors
             /\ centroids' = centroids
             /\ assignments' = assignments
             /\ eassign' = eassign
             /\ Cardinality({ i \in 1..4 :
                  <<noise', blur', vignette', mood'>>[i]
                    # <<noise, blur, vignette, mood>>[i] }) <= 1]_vars

\* the four analyzers have run on a buffer that is not flat
C10_Witness ==
  /\ pc = "done"
  /\ ~IsFlat(img)
  /\ result.blur = analyzeBlur(img)
  /\ result.blur.variance > 0
  /\ result.mood = detectMood(img)
  /\ Len(result.colors) >= 2

(* ---------------------------- analyzer claims -------------------------- *)

\* the numeric fields of a returned GradientSpec
NumericFields(spec) ==
  { spec.blur.variance, spec.noise.intensity, spec.noise.sharpness,
    spec.noise.contrast, spec.noise.baseFrequency, spec.vignette.strength }
  \cup { spec.colors[c].position.x : c \in 1..Len(spec.colors) }
  \cup { spec.colors[c].position.y : c \in 1..Len(spec.colors) }
  \cup { spec.colors[c].spread : c \in 1..Len(spec.colors) }
  \cup { spec.colors[c].weight : c \in 1..Len(spec.colors) }

\* C11: for every buffer of width and height at least 1, analyzeBlur,
\* analyzeNoise and extractColors never divide by a zero count or span: a
\* mean or variance is computed over a non-empty list only, and no returned
\* numeric field is NaN.
C11_NoNaNField ==
  pc = "done" => NaN \notin NumericFields(result)

(* --------------------------------- cli --------------------------------- *)

\* console.error(line); process.exit(1)
FailWith(c, line) ==
  [c EXCEPT !.stderr = Append(c.stderr, line), !.status = 1]

\* the file-existence test that opens both actions, lines 52-55 and 99-102
CliStart ==
  /\ pc = "cli"
  /\ IF ~cli.exists
     THEN /\ cli' = FailWith([cli EXCEPT !.failed = TRUE], "File not found")
          /\ pc' = "exited"
     ELSE /\ cli' = cli
          /\ pc' = "load"
  /\ UNCHANGED <<geom, img, k, maxIter, rands, calls, centroids, assignments, iter,
                 colors, eassign, noise, blur, vignette, mood, shapes,
                 strategy, result>>

\* loadImage inside analyzeImage: the file decodes, or Jimp.read throws
CliLoad ==
  /\ pc = "load"
  /\ \/ /\ pc' = "seed"
        /\ cli' = cli
     \/ /\ pc' = "catch"
        /\ cli' = [cli EXCEPT !.failed = TRUE]
  /\ UNCHANGED <<geom, img, k, maxIter, rands, calls, centroids, assignments, iter,
                 colors, eassign, noise, blur, vignette, mood, shapes,
                 strategy, result>>

\* JSON.stringify(spec, null, 2), or generateCSS(spec, ...), which may throw
CliRender ==
  /\ pc = "done"
  /\ cli # Absent
  /\ \/ /\ cli' = [cli EXCEPT !.text = IF cli.command = "analyze"
                                       THEN "json" ELSE "css"]
        /\ pc' = "emit"
     \/ /\ cli.command = "generate"
        /\ cli' = [cli EXCEPT !.failed = TRUE]
        /\ pc' = "catch"
  /\ UNCHANGED <<geom, img, k, maxIter, rands, calls, centroids, assignments, iter,
                 colors, eassign, noise, blur, vignette, mood, shapes,
                 strategy, result>>

\* CliEmit printing the text before it tries the file
CliEmitPrintFirst ==
  /\ pc = "emit"
  /\ LET printed == [cli EXCEPT !.stdout = Append(cli.stdout, cli.text)]
     IN IF cli.toFile
        THEN \/ /\ cli' = [printed EXCEPT !.file = cli.text, !.status = 0]
                /\ pc' = "finished"
             \/ /\ cli' = [printed EXCEPT !.failed = TRUE]
                /\ pc' = "catch"
        ELSE /\ cli' = [printed EXCEPT !.status = 0]
             /\ pc' = "finished"
  /\ UNCHANGED <<geom, img, k, maxIter, rands, calls, centroids, assignments, iter,
                 colors, eassign, noise, blur, vignette, mood, shapes,
                 strategy, result>>

\* lines 65-70 and 115-120: fs.writeFileSync and a note, or console.log of
\* the text; a write that throws leaves the file as it was or cut short
CliEmit ==
  /\ pc = "emit"
  /\ IF cli.toFile
     THEN \/ /\ cli' = [cli EXCEPT !.file = cli.text,
                                   !.stdout = Append(cli.stdout, "written to"),
                                   !.status = 0]
             /\ pc' = "finished"
          \/ /\ \E left \in { cli.file, "cut short" } :
                  cli' = [cli EXCEPT !.file = left, !.failed = TRUE]
             /\ pc' = "catch"
     ELSE /\ cli' = [cli EXCEPT !.stdout = Append(cli.stdout, cli.text),
                                !.status = 0]
          /\ pc' = "finished"
  /\ UNCHANGED <<geom, img, k, maxIter, rands, calls, centroids, assignments, iter,
                 colors, eassign, noise, blur, vignette, mood, shapes,
                 strategy, result>>

\* the catch blocks, lines 71-74 and 121-124
CliCatch ==
  /\ pc = "catch"
  /\ cli' = FailWith(cli, IF cli.command = "analyze" THEN "Analysis failed"
                          ELSE "Generation failed")
  /\ pc' = "exited"
  /\ UNCHANGED <<geom, img, k, maxIter, rands, calls, centroids, assignments, iter,
                 colors, eassign, noise, blur, vignette, mood, shapes,
                 strategy, result>>

\* a process started on one of the two commands; status -1 while it runs
CliProcesses ==
  { [command |-> c, exists |-> e, toFile |-> f, text |-> "", stdout |-> <<>>,
     stderr |-> <<>>, file |-> "", failed |-> FALSE, status |-> -1] :
      c \in { "analyze", "generate" }, e \in BOOLEAN, f \in BOOLEAN }

InitCli ==
  /\ cli \in CliProcesses
  /\ img \in { MakeImage("flat", 2, 2, Black, Black),
               MakeImage("split", 3, 3, Black, White) }
  /\ k \in 1..2
  /\ maxIter = DefaultMaxIter
  /\ rands = {0}
  /\ pc = "cli"
  /\ calls = <<>>
  /\ centroids = <<>>
  /\ assignments = [i \in 1..NumPixels(img) |-> 1]
  /\ iter = 0
  /\ colors = <<>>
  /\ eassign = <<>>
  /\ noise = Absent
  /\ blur = Absent
  /\ vignette = Absent
  /\ mood = Absent
  /\ shapes = Absent
  /\ geom = Absent
  /\ strategy = NoStrategy
  /\ result = Absent

NextCli ==
  \/ CliStart
  \/ CliLoad
  \/ Next
  \/ CliRender
  \/ CliEmit
  \/ CliCatch

SpecCli == InitCli /\ [][NextCli]_vars

AnalyzeShapesCall ==
  /\ pc = "done"
  /\ cli = Absent
  /\ shapes' = analyzeShapes(img, colors, eassign)
  /\ pc' = "shaped"
  /\ UNCHANGED <<geom, cli, img, k, maxIter, rands, calls, centroids, assignments,
                 iter, colors, eassign, noise, blur, vignette, mood, strategy,
                 result>>

InitShapes ==
  /\ img \in ShapeImages
  /\ k \in 1..2
  /\ maxIter = DefaultMaxIter
  /\ rands = 0..(RandDen - 1)
  /\ InitCommon

NextShapes == Next \/ AnalyzeShapesCall

SpecShapes == InitShapes /\ [][NextShapes]_vars

ContourAt(i) == shapes.contours[i]

\* C13: every ShapeContour.direction and the ShapeInfo.flowDirection that
\* analyzeShapes returns is an angle of at least 0 and less than 360 degrees.
C13_DirectionsBelow360 ==
  pc = "shaped" =>
    /\ shapes.flowDirection \in 0..359
    /\ \A i \in 1..Len(shapes.contours) : ContourAt(i).direction \in 0..359

InUnitSquare(p) == 0 <= p.x /\ p.x <= p.den /\ 0 <= p.y /\ p.y <= p.den

\* C14: every wave, wisp, ribbon or petal contour that buildContour returns
\* has both coordinates of its startPoint and of its endPoint in [0, 1].
C14_EndPointsInUnitSquare ==
  pc = "shaped" =>
    \A i \in 1..Len(shapes.contours) :
      ContourAt(i).type \in {"wave", "wisp", "ribbon", "petal"} =>
        /\ InUnitSquare(ContourAt(i).startPoint)
        /\ InUnitSquare(ContourAt(i).endPoint)

HasInterior(im) == im.width >= 3 /\ im.height >= 3

C16_DetectedIffReturnedStrength ==
  vignette # Absent =>
    /\ vignette.strength \in 0..100
    /\ vignette.detected <=> vignette.strength > 10

\* C16 (amended): detected is decided before the strength is rounded to two
\* decimals: detected = true implies a returned strength of at least 0.1, a
\* returned strength greater than 0.1 implies detected = true, and the
\* returned strength is in [0, 1].
C16_DetectedWithinRounding ==
  vignette # Absent =>
    /\ vignette.strength \in 0..100
    /\ vignette.detected => vignette.strength >= 10
    /\ vignette.strength > 10 => vignette.detected

C16_Witness ==
  /\ vignette # Absent
  /\ vignette.detected
  /\ vignette.strength = 10

SaturatedPixels(im) == { i \in 1..NumPixels(im) : Saturated(im.data[i]) }

\* the temperature of the mean hue of the saturated pixels
MeanHueClass(im) ==
  LET sat == SaturatedPixels(im)
      totalHue == SumOver(sat, [i \in sat |-> HueOf(im.data[i])])
  IN IF totalHue <= 70000 * Cardinality(sat) \/ totalHue >= 300000 * Cardinality(sat)
     THEN "warm"
     ELSE IF totalHue >= 160000 * Cardinality(sat)
             /\ totalHue <= 280000 * Cardinality(sat)
     THEN "cool"
     ELSE "neutral"

\* C17 (as stated): the temperature is classified from the mean hue of the
\* pixels with saturation > 0.1 whenever they are at least 5% of the image,
\* exactly 5% included, and is neutral by default only when they are fewer.
C17_ClassifiedFromFivePercent ==
  mood # Absent =>
    mood.temperature =
      IF 20 * Cardinality(SaturatedPixels(img)) >= NumPixels(img)
      THEN MeanHueClass(img) ELSE "neutral"

\* C17 (amended): the temperature is classified from the mean hue of the
\* pixels with saturation > 0.1 whenever they are more than 5% of the image,
\* and is neutral by default when they are 5% of it or fewer.
C17_ClassifiedAboveFivePercent ==
  mood # Absent =>
    mood.temperature =
      IF 20 * Cardinality(SaturatedPixels(img)) > NumPixels(img)
      THEN MeanHueClass(img) ELSE "neutral"

C17_Witness ==
  /\ mood # Absent
  /\ 20 * Cardinality(SaturatedPixels(img)) = NumPixels(img)
  /\ MeanHueClass(img) = "warm"
  /\ mood.temperature = "neutral"

\* C18 (as stated): for a fully uniform image, any k and any seeding, the
\* single region returned has a spread of at most 0.05.
C18_FlatSpreadNearZero ==
  (Built /\ IsFlat(img)) =>
    /\ Len(colors) = 1
    /\ colors[1].spread <= 5

\* C18 (amended): for a fully uniform image at least 2 pixels wide and high,
\* any k and any seeding, the single region returned covers the whole buffer
\* and its spread, the mean distance of all the pixels to the region's
\* position over 0.707, is at least 0.5 and at most 1.
C18_FlatSpreadIsWholeBuffer ==
  (Built /\ IsFlat(img)) =>
    /\ Len(colors) = 1
    /\ colors[1].weight = 100
    /\ colors[1].spread >= 50
    /\ colors[1].spread <= 100

C18_Witness ==
  /\ Built
  /\ IsFlat(img)
  /\ k = 2
  /\ Len(colors) = 1
  /\ colors[1].spread < 100

(* ----------------------------- second pass ----------------------------- *)

\* computeEdgeSharpness(img, colors, assignments) applied once more by a
\* client to the regions of a finished analysis
RerunEdgeSharpness ==
  /\ pc = "done"
  /\ cli = Absent
  /\ colors' = computeEdgeSharpness(img, colors, eassign)
  /\ pc' = "rerun"
  /\ UNCHANGED <<geom, cli, img, k, maxIter, rands, calls, centroids, assignments,
                 iter, eassign, noise, blur, vignette, mood, shapes, strategy,
                 result>>

NextRerun == Next \/ RerunEdgeSharpness

SpecRerun == InitTone /\ [][NextRerun]_vars

ClassifyCall ==
  /\ pc = "call"
  /\ strategy' = classifyStrategy(colors, shapes)
  /\ calls' = Append(calls, "classifyStrategy")
  /\ pc' = "called"
  /\ UNCHANGED <<geom, cli, img, k, maxIter, rands, centroids, assignments, iter, colors,
                 eassign, noise, blur, vignette, mood, shapes, result>>

HasDominantBase == \E c \in 1..Len(colors) : colors[c].weight > 50

SimpleRuleHolds ==
  /\ Len(colors) <= 3
  /\ LinearityAbove75(colors)
  /\ MaxSharpness(colors) - MinSharpness(colors) < 30

C21_StrategyMatchesRegionCounts ==
  pc = "called" =>
    /\ strategy = "simple" => Len(colors) <= 3
    /\ strategy = "mesh" =>
         /\ Len(colors) >= 4
         /\ ~HasDominantBase
         /\ LinearityBelow70(colors)

\* mesh from the fallback rule: four regions, or linearity between 0.65 and 0.7
C21_Witness ==
  /\ pc = "called"
  /\ strategy = "mesh"
  /\ Len(colors) = 4 \/ ~LinearityBelow65(colors)

\* every three centroids lie on one line
Collinear(cols) ==
  \A a, b, c \in 1..Len(cols) :
    (cols[b].position.x - cols[a].position.x)
      * (cols[c].position.y - cols[a].position.y)
    = (cols[b].position.y - cols[a].position.y)
      * (cols[c].position.x - cols[a].position.x)

\* the centroid positions vary, equally along every axis
Isotropic(cols) ==
  LET n == Len(cols)
      mx == SumSeq([i \in 1..n |-> cols[i].position.x])
      my == SumSeq([i \in 1..n |-> cols[i].position.y])
      dx(i) == n * cols[i].position.x - mx
      dy(i) == n * cols[i].position.y - my
  IN /\ SumSeq([i \in 1..n |-> dx(i) * dx(i)]) > 0
     /\ SumSeq([i \in 1..n |-> dx(i) * dx(i)])
        = SumSeq([i \in 1..n |-> dy(i) * dy(i)])
     /\ SumSeq([i \in 1..n |-> dx(i) * dy(i)]) = 0

\* C22: the linearity classifyStrategy computes is 1 when the centroids are
\* collinear and 0 when their positions have the same variance along both
\* principal axes.
C22_LinearityOneToZero ==
  (pc = "called" /\ Len(colors) >= 3) =>
    /\ Collinear(colors) => LinearityAtLeast(colors, 1, 1)
    /\ Isotropic(colors) => LinearityAtMost(colors, 0, 1)

InitClassify ==
  /\ colors \in ColorInputs
  /\ shapes \in ShapeInputs
  /\ geom = Absent
  /\ pc = "call"
  /\ img = MakeImage("flat", 2, 2, Black, Black)
  /\ k = Len(colors)
  /\ maxIter = DefaultMaxIter
  /\ rands = {0}
  /\ calls = <<>>
  /\ centroids = <<>>
  /\ assignments = <<>>
  /\ iter = 0
  /\ eassign = <<>>
  /\ noise = Absent
  /\ blur = Absent
  /\ vignette = Absent
  /\ mood = Absent
  /\ strategy = NoStrategy
  /\ result = Absent
  /\ cli = Absent

NextClassify == ClassifyCall

SpecClassify == InitClassify /\ [][NextClassify]_vars

(* ------------------------------ blur-layer ----------------------------- *)
(* A layer is kept as its tier, the blobs of its background in order, its  *)
(* blur radius in px (0 for filter: none) and its inset in percent; a blob *)
(* is the radial gradient of one region: centre, colour, opacity and the   *)
(* transparent stop.                                                       *)

FidelityLevels == { "exact", "vibe", "inspired" }

\* blurRadiusPx(blur, fidelity)
blurRadiusPx(b, fidelity) ==
  LET byLevel == CASE b.level = "heavy" -> 60
                   [] b.level = "medium" -> 35
                   [] b.level = "light" -> 15
                   [] b.level = "none" -> 0
      base == IF fidelity = "exact"
              THEN RoundDiv((100 - b.variance) * 80, 100)
              ELSE byLevel
      minimum == CASE fidelity = "exact" -> 30
                   [] fidelity = "vibe" -> 40
                   [] fidelity = "inspired" -> 20
  IN Max(base, minimum)

\* blurOverflowPct(radiusPx)
blurOverflowPct(radiusPx) == Max(10, RoundDiv(radiusPx, 2))

\* regionBlurPx(region, globalBlur)
regionBlurPx(region, globalBlur) ==
  RoundDiv(Max(50000, globalBlur * (10000 - 85 * region.edgeSharpness)), 10000)

\* blobGradient(c, radiusMultiplier), the multiplier in hundredths
blobGradient(c, radiusMultiplier) ==
  [xPct |-> c.position.x,
   yPct |-> c.position.y,
   rgb |-> c.rgb,
   opacity |-> Min(90, 40 + c.weight),
   radius |-> RoundDiv((300 + 4 * c.spread) * (1300 - 7 * c.edgeSharpness)
                         * radiusMultiplier, 1000000)]

Gradients(cols, radiusMultiplier) ==
  [j \in 1..Len(cols) |-> blobGradient(cols[j], radiusMultiplier)]

buildSingleLayer(cols, b, fidelity) ==
  LET globalRadius == blurRadiusPx(b, fidelity)
  IN [layers |-> << [tier |-> "single",
                     inset |-> blurOverflowPct(globalRadius),
                     background |-> Gradients(cols, 100),
                     filter |-> globalRadius] >>,
      needsInnerWrapper |-> FALSE]

DiffuseLayer(diffuseRegions, globalRadius) ==
  LET diffuseBlur == RoundDiv(11 * globalRadius, 10)
  IN [tier |-> "diffuse",
      inset |-> blurOverflowPct(diffuseBlur),
      background |-> Gradients(diffuseRegions, 120),
      filter |-> diffuseBlur]

SharpLayer(sharpRegions, globalRadius) ==
  LET avgSharpBlur ==
        RoundDiv(SumSeq([j \in 1..Len(sharpRegions) |->
                           regionBlurPx(sharpRegions[j], globalRadius)]),
                 Len(sharpRegions))
  IN [tier |-> "sharp",
      inset |-> blurOverflowPct(avgSharpBlur),
      background |-> Gradients(sharpRegions, 80),
      filter |-> avgSharpBlur]

buildMultiTierLayers(cols, b, fidelity) ==
  LET globalRadius == blurRadiusPx(b, fidelity)
      sharpRegions == SelectSeq(cols, LAMBDA c : c.edgeSharpness >= 50)
      diffuseRegions == SelectSeq(cols, LAMBDA c : c.edgeSharpness < 50)
      layers ==
        (IF Len(diffuseRegions) > 0
         THEN << DiffuseLayer(diffuseRegions, globalRadius) >> ELSE << >>)
        \o (IF Len(sharpRegions) > 0
            THEN << SharpLayer(sharpRegions, globalRadius) >> ELSE << >>)
  IN [layers |-> layers, needsInnerWrapper |-> Len(layers) > 1]

\* buildBlurLayers(colors, blur, fidelity)
buildBlurLayers(cols, b, fidelity) ==
  IF Len(cols) = 0 THEN [layers |-> << >>, needsInnerWrapper |-> FALSE]
  ELSE LET range == MaxOf(Sharpnesses(cols)) - MinOf(Sharpnesses(cols))
       IN IF range > 40 /\ Len(cols) >= 3
          THEN buildMultiTierLayers(cols, b, fidelity)
          ELSE buildSingleLayer(cols, b, fidelity)

\* regions handed to buildBlurLayers: region j at (10 j, 20 j) with weight
\* 20 and the j-th of the sharpness values
LayerRegion(j, sharpness) ==
  [hex |-> rgbToHex(40 * j, 40 * j, 40 * j),
   rgb |-> <<40 * j, 40 * j, 40 * j>>,
   position |-> [x |-> 10 * j, y |-> 20 * j],
   weight |-> 20,
   spread |-> 50,
   edgeSharpness |-> sharpness]

LayerSharpness == { 0, 9, 45, 49, 50, 90, 91, 100 }

LayerInputs ==
  UNION { { [j \in 1..n |-> LayerRegion(j, s[j])] : s \in [1..n -> LayerSharpness] } :
          n \in 0..MaxLayerRegions }

BlurInputs == { [level |-> "heavy", variance |-> 5],
                [level |-> "none", variance |-> 60] }

\* buildBlurLayers(colors, blur, fidelity) called on its own
BuildBlurLayersCall ==
  /\ pc = "call"
  /\ \E fidelity \in FidelityLevels :
       result' = buildBlurLayers(colors, blur, fidelity)
  /\ calls' = Append(calls, "buildBlurLayers")
  /\ pc' = "layered"
  /\ UNCHANGED <<geom, cli, img, k, maxIter, rands, centroids, assignments, iter, colors,
                 eassign, noise, blur, vignette, mood, shapes, strategy>>

InitLayers ==
  /\ colors \in LayerInputs
  /\ blur \in BlurInputs
  /\ img = MakeImage("flat", 1, 1, Black, Black)
  /\ k = 1
  /\ maxIter = DefaultMaxIter
  /\ rands = {0}
  /\ pc = "call"
  /\ calls = <<>>
  /\ centroids = <<>>
  /\ assignments = <<1>>
  /\ iter = 0
  /\ eassign = <<>>
  /\ noise = Absent
  /\ vignette = Absent
  /\ mood = Absent
  /\ shapes = Absent
  /\ geom = Absent
  /\ strategy = NoStrategy
  /\ result = Absent
  /\ cli = Absent

NextLayers == BuildBlurLayersCall

SpecLayers == InitLayers /\ [][NextLayers]_vars

SharpnessRange(cols) == MaxOf(Sharpnesses(cols)) - MinOf(Sharpnesses(cols))

\* the regions whose blob is in a layer of the given tier
InTier(tier) ==
  { j \in 1..Len(colors) :
      \E l \in 1..Len(result.layers) :
        /\ result.layers[l].tier = tier
        /\ \E g \in 1..Len(result.layers[l].background) :
             result.layers[l].background[g].rgb = colors[j].rgb }

\* C23: when the edge-sharpness range of the regions given to buildBlurLayers
\* exceeds 0.4, there is a sharp layer and a diffuse layer, the regions of
\* sharpness >= 0.5 are in the sharp one and the others in the diffuse one,
\* each in exactly one blob, and needsInnerWrapper is true.
C23_WideRangeSplitsIntoTiers ==
  (pc = "layered" /\ Len(colors) > 0 /\ SharpnessRange(colors) > 40) =>
    /\ result.needsInnerWrapper
    /\ { result.layers[l].tier : l \in 1..Len(result.layers) }
         = { "sharp", "diffuse" }
    /\ InTier("sharp") = { j \in 1..Len(colors) : colors[j].edgeSharpness >= 50 }
    /\ InTier("diffuse") = { j \in 1..Len(colors) : colors[j].edgeSharpness < 50 }
    /\ SumSeq([l \in 1..Len(result.layers) |-> Len(result.layers[l].background)])
         = Len(colors)

(* -------------------------- classifyShape alone ------------------------ *)

\* the cluster of an L of 22 pixels on an 8 x 8 buffer, and its geometry
RuleImage == MakeImage("ell", 8, 8, <<0, 0, 0>>, <<6, 6, 6>>)

RulePixels ==
  collectClusterPixels(
    RuleImage,
    [i \in 1..NumPixels(RuleImage) |->
       IF RuleImage.data[i] = <<0, 0, 0>> THEN 2 ELSE 1],
    2)

RuleBase == analyzeGeometry(RulePixels, 8, 8)

RuleFlowDirection == computeFlowDirection(RuleImage)

\* the geometry with eigenvalue1 / eigenvalue2 = e / 100 and the fields
\* classifyShape reads redrawn; a tip is absent only from 70 degrees on
RuleGeometry(e, f) ==
  [RuleBase EXCEPT
     !.moments = [RuleBase.moments EXCEPT !.trace = 100 + e, !.R = e - 100],
     !.convexityBelow07 = f.concave,
     !.minHullAngle = f.angle,
     !.tipPoint = IF f.tip THEN RuleBase.tipPoint ELSE Absent,
     !.sinuosity = f.sinuosity,
     !.avgThickness = f.thickness,
     !.thin = f.thickness < 600,
     !.areaAbove006 = f.large,
     !.edgeStraightness = f.straightness]

RuleElongations == { 169, 170, 625, 626, 783, 784, 1225, 1226, 2499, 2500 }

RuleFields ==
  { r \in [concave : BOOLEAN, angle : {69, 70}, tip : BOOLEAN,
           sinuosity : {11, 12, 13}, thickness : {599, 600},
           large : BOOLEAN, straightness : {49, 50}] :
      r.angle < 70 => r.tip }

RuleRegions ==
  << [hex |-> rgbToHex(6, 6, 6), rgb |-> <<6, 6, 6>>,
      position |-> [x |-> 57, y |-> 64], weight |-> 66, spread |-> 50,
      edgeSharpness |-> 30],
     [hex |-> rgbToHex(0, 0, 0), rgb |-> <<0, 0, 0>>,
      position |-> [x |-> 36, y |-> 23], weight |-> 34, spread |-> 50,
      edgeSharpness |-> 30] >>

\* the body of the loop of analyzeShapes for one cluster of 20 pixels or
\* more, lines 50-54, and the summary of what it pushed
ClassifyShapeCall ==
  /\ pc = "call"
  /\ shapes' = ShapeInfoOf(ClusterContour(geom, colors[2]), Len(colors),
                           RuleFlowDirection)
  /\ calls' = Append(calls, "classifyShape")
  /\ pc' = "classified"
  /\ UNCHANGED <<geom, cli, img, k, maxIter, rands, centroids, assignments, iter,
                 colors, eassign, noise, blur, vignette, mood, strategy, result>>

InitShapeRules ==
  /\ \E e \in RuleElongations, f \in RuleFields : geom = RuleGeometry(e, f)
  /\ colors = RuleRegions
  /\ img = RuleImage
  /\ k = 2
  /\ maxIter = DefaultMaxIter
  /\ rands = {0}
  /\ pc = "call"
  /\ calls = <<>>
  /\ centroids = <<>>
  /\ assignments = [i \in 1..NumPixels(img) |-> 1]
  /\ iter = 0
  /\ eassign = <<>>
  /\ noise = Absent
  /\ blur = Absent
  /\ vignette = Absent
  /\ mood = Absent
  /\ shapes = Absent
  /\ strategy = NoStrategy
  /\ result = Absent
  /\ cli = Absent

NextShapeRules == ClassifyShapeCall

SpecShapeRules == InitShapeRules /\ [][NextShapeRules]_vars

\* the six rules in the order of the claim, each with its condition
ShapeRules(g) ==
  << [type |-> "petal",
      holds |-> /\ g.convexityBelow07
                /\ g.minHullAngle < 70
                /\ g.tipPoint # Absent
                /\ ElongationAbove(g.moments, g.S, 169)
                /\ ElongationBelow(g.moments, g.S, 2500)],
     [type |-> "wave",
      holds |-> ElongationAbove(g.moments, g.S, 625) /\ g.sinuosity > 12],
     [type |-> "wisp",
      holds |-> ElongationAbove(g.moments, g.S, 1225) /\ g.avgThickness < 600],
     [type |-> "ribbon",
      holds |-> /\ ElongationAbove(g.moments, g.S, 625)
                /\ g.avgThickness >= 600
                /\ g.sinuosity < 12],
     [type |-> "angular-veil",
      holds |-> /\ g.areaAbove006
                /\ ElongationBelow(g.moments, g.S, 784)
                /\ g.edgeStraightness >= 50],
     [type |-> "veil",
      holds |-> /\ g.areaAbove006
                /\ ElongationBelow(g.moments, g.S, 784)
                /\ g.edgeStraightness < 50] >>

Matching(g) == { i \in 1..6 : ShapeRules(g)[i].holds }

\* C24: the cluster gets the type of the first rule of the list that holds,
\* and one contour of that type; a cluster no rule holds of gets none.
C24_FirstMatchingShapeRule ==
  pc = "classified" =>
    IF Matching(geom) = {} THEN shapes.contours = << >>
    ELSE /\ Len(shapes.contours) = 1
         /\ \E i \in Matching(geom) :
              /\ \A j \in Matching(geom) : i <= j
              /\ shapes.contours[1].type = ShapeRules(geom)[i].type

\* a petal of which the wave rule holds too
C24_Witness ==
  /\ pc = "classified"
  /\ {1, 2} \subseteq Matching(geom)
  /\ Len(shapes.contours) = 1
  /\ shapes.contours[1].type = "petal"

(* -------------------------- boundary pixels ---------------------------- *)

\* the pixels of cluster c, anywhere in the buffer, of which a neighbour
\* above, below, left or right that exists belongs to another cluster
TouchingOthers(im, asg, c) ==
  LET a(x, y) == asg[y * im.width + x + 1]
      inside(x, y) == x \in 0..(im.width - 1) /\ y \in 0..(im.height - 1)
  IN { q \in (0..(im.width - 1)) \X (0..(im.height - 1)) :
         /\ a(q[1], q[2]) = c
         /\ \E d \in { <<0, -1>>, <<0, 1>>, <<-1, 0>>, <<1, 0>> } :
              /\ inside(q[1] + d[1], q[2] + d[2])
              /\ a(q[1] + d[1], q[2] + d[2]) # c }

\* C25: once computeEdgeSharpness has returned, every pixel of a cluster
\* that touches another cluster was counted for it, those of the outermost
\* rows and columns included; so a cluster for which none was counted, and
\* which got edgeSharpness 0 for that reason, touches no other cluster.
C25_EveryBoundaryPixelCounted ==
  (\E j \in 1..Len(calls) : calls[j] = "computeEdgeSharpness") =>
    \A c \in 1..Len(colors) :
      /\ TouchingOthers(img, eassign, c) \subseteq CountedFor(img, eassign, c)
      /\ (CountedFor(img, eassign, c) = {} /\ colors[c].edgeSharpness = 0)
           => TouchingOthers(img, eassign, c) = {}

\* the regions that may get a contour: not the first of the heaviest, and
\* 20 assigned pixels or more
ShapeCandidates ==
  { c \in 1..Len(colors) :
      /\ \E b \in 1..Len(colors) :
           \/ colors[b].weight > colors[c].weight
           \/ (b < c /\ colors[b].weight = colors[c].weight)
      /\ Cardinality({ i \in 1..Len(eassign) : eassign[i] = c }) >= 20 }

QuadAssignments(p, q, e) ==
  LET corners == << <<0, 0>>, p, q, <<0, e>> >>
      side(i, x, y) == Cross(corners[i], corners[(i % 4) + 1], <<x, y>>)
      within(x, y) == \/ \A i \in 1..4 : side(i, x, y) >= 0
                      \/ \A i \in 1..4 : side(i, x, y) <= 0
  IN [i \in 1..64 |-> IF within(PixX(i, 8), PixY(i, 8)) THEN 2 ELSE 1]

\* clusters analyzeShapes hands to analyzeGeometry: 20 pixels or more, and
\* not the heaviest, so at most half of the buffer
QuadInputs ==
  { asg \in { QuadAssignments(p, q, e) :
               p \in { <<5, 0>>, <<6, 0>>, <<7, 0>>, <<7, 1>>, <<6, 2>>, <<7, 2>> },
               q \in { <<4, 6>>, <<4, 7>>, <<5, 5>>, <<6, 5>>, <<7, 5>>, <<7, 7>> },
               e \in { 0, 1, 2, 4, 7 } } :
      Cardinality({ i \in 1..64 : asg[i] = 2 }) \in 20..32 }

\* a 21 x 2 buffer of which the top row is cluster 2
RowImage == MakeImage("flat", 21, 2, Black, Black)

RowAssignments == [i \in 1..42 |-> IF i <= 21 THEN 2 ELSE 1]

\* analyzeGeometry(pixels, width, height) called on the pixels of cluster 2
AnalyzeGeometryCall ==
  /\ pc = "call"
  /\ geom' = analyzeGeometry(collectClusterPixels(img, eassign, 2),
                             img.width, img.height)
  /\ calls' = Append(calls, "analyzeGeometry")
  /\ pc' = "measured"
  /\ UNCHANGED <<cli, img, k, maxIter, rands, centroids, assignments, iter,
                 colors, eassign, noise, blur, vignette, mood, shapes, strategy,
                 result>>

InitGeometry ==
  /\ \/ img = MakeImage("flat", 8, 8, Black, Black) /\ eassign \in QuadInputs
     \/ img = RowImage /\ eassign = RowAssignments
  /\ geom = Absent
  /\ colors = << >>
  /\ k = 2
  /\ maxIter = DefaultMaxIter
  /\ rands = {0}
  /\ pc = "call"
  /\ calls = <<>>
  /\ centroids = <<>>
  /\ assignments = [i \in 1..NumPixels(img) |-> 1]
  /\ iter = 0
  /\ noise = Absent
  /\ blur = Absent
  /\ vignette = Absent
  /\ mood = Absent
  /\ shapes = Absent
  /\ strategy = NoStrategy
  /\ result = Absent
  /\ cli = Absent

NextGeometry == AnalyzeGeometryCall

SpecGeometry == InitGeometry /\ [][NextGeometry]_vars

\* the interior angle at hull[i] is below 70 degrees: the edges to the two
\* neighbours have a positive dot product and |cross| < tan(70) * dot
SharpAt(hull, i) ==
  LET n == Len(hull)
      o == hull[i]
      a == hull[((i + n - 2) % n) + 1]
      b == hull[(i % n) + 1]
      dot == (a[1] - o[1]) * (b[1] - o[1]) + (a[2] - o[2]) * (b[2] - o[2])
  IN dot > 0 /\ 1000000 * Abs(Cross(o, a, b)) < 2747477 * dot

\* C27: a tip point is reported if and only if the hull has 3 vertices or
\* more and the angle at one of them is below 70 degrees, and then the tip
\* is such a vertex; so a minHullAngle below 70 comes with a tip.
C27_TipIffBelowSeventy ==
  pc = "measured" =>
    /\ geom.tipPoint # Absent
         <=> (Len(geom.hull) >= 3
              /\ \E i \in 1..Len(geom.hull) : SharpAt(geom.hull, i))
    /\ geom.tipPoint # Absent =>
         \E i \in 1..Len(geom.hull) :
           geom.hull[i] = geom.tipPoint /\ SharpAt(geom.hull, i)
    /\ geom.minHullAngle < 70 => geom.tipPoint # Absent

\* an angle below 70 degrees that is rounded to 70
C27_Witness ==
  /\ pc = "measured"
  /\ geom.tipPoint # Absent
  /\ geom.minHullAngle = 70

(* ---------------------------- k-means loop ----------------------------- *)

\* centroid a is a nearest one to pixel i, and the first of the nearest
FirstNearest(i, a) ==
  /\ \A c \in 1..Len(centroids) :
       ~CloserThan(img.data[i], centroids[c], centroids[a])
  /\ \A c \in 1..(a - 1) : CloserThan(img.data[i], centroids[a], centroids[c])

\* the loop has ended on a pass that changed no assignment
StoppedEarly == pc \notin {"seed", "kmeans"} /\ iter < maxIter

\* C28: the loop makes at most maxIter passes and ends at the first pass
\* that changes no assignment; every pixel is assigned to one of the k
\* centroids; and when the loop ended before maxIter passes every pixel is
\* assigned to the first of the centroids nearest to it by colour.
C28_LoopBoundedAndNearestOnEarlyStop ==
  /\ [](/\ iter <= maxIter
        /\ pc = "kmeans" => iter < maxIter
        /\ \A i \in 1..NumPixels(img) : assignments[i] \in 1..k
        /\ StoppedEarly =>
             \A i \in 1..NumPixels(img) : FirstNearest(i, assignments[i]))
  /\ [][pc = "kmeans" =>
          /\ assignments' = assignments => pc' = "build" /\ iter' = iter
          /\ assignments' # assignments => iter' = iter + 1
          /\ pc' = "kmeans" => assignments' # assignments]_vars

C28_Witness ==
  /\ StoppedEarly
  /\ iter >= 1
  /\ Cardinality({ assignments[i] : i \in 1..NumPixels(img) }) >= 2

(* ------------------ recomputed against final assignment ----------------- *)

\* a 3 x 2 buffer of the colour (0, s, 0) but for one pixel (0, 0, 0) at
\* index a and one pixel (2s, 0, 0) at index b: (0, 0, 0) is as far from the
\* mean (s, 0, 0) of the two as from (0, s, 0)
TieImage(s, a, b) ==
  [width |-> 3, height |-> 2, originalWidth |-> 3, originalHeight |-> 2,
   data |-> [i \in 1..6 |->
               IF i = a THEN <<0, 0, 0>>
               ELSE IF i = b THEN <<2 * s, 0, 0>> ELSE <<0, s, 0>>]]

TieImages ==
  { TieImage(s, a, b) : s \in {1, 10, 100}, a \in 1..6, b \in 2..5 }

InitRecompute ==
  /\ img \in TieImages
  /\ k \in 1..MaxK
  /\ maxIter \in {ShortIter, DefaultMaxIter}
  /\ rands = 0..(RandDen - 1)
  /\ InitCommon

SpecRecompute == InitRecompute /\ [][Next]_vars

\* the ways of sending each populated cluster to a region of its own
RegionOfCluster ==
  { f \in [NonEmptyClusters -> 1..Len(colors)] :
      \A a, b \in NonEmptyClusters : f[a] = f[b] => a = b }

Recomputed ==
  \E j \in 1..Len(calls) : calls[j] = "assignPixelsToClusters"

\* C29: the assignment recomputed from the returned regions places every
\* pixel in the region of the cluster the loop left it in, so each region's
\* share of the recomputed pixels is its weight and none is left empty.
C29_RecomputedMatchesFinal ==
  Recomputed =>
    /\ \E f \in RegionOfCluster :
         \A i \in 1..NumPixels(img) : eassign[i] = f[assignments[i]]
    /\ \A j \in 1..Len(colors) :
         /\ Members(eassign, j) # {}
         /\ Weight(Cardinality(Members(eassign, j)), NumPixels(img))
              = colors[j].weight

(* --------------------------- hue of the mood ---------------------------- *)

\* a saturated colour of hue 317
Magenta == <<250, 75, 200>>

\* 5 x 4 = 20 pixels, gray but for a pixels of hue 8 and then b of hue 317
HueProbes ==
  { ProbeImage(5, 4, Gray, [i \in 1..(a + b) |-> IF i <= a THEN Warm ELSE Magenta]) :
      a \in 0..2, b \in 0..2 }

InitMood ==
  /\ img \in HueProbes
  /\ k \in 1..2
  /\ maxIter = DefaultMaxIter
  /\ rands = 0..(RandDen - 1)
  /\ InitCommon

SpecMood == InitMood /\ [][Next]_vars

WarmHue(p) == HueOf(p) <= 70000 \/ HueOf(p) >= 300000

CoolHue(p) == HueOf(p) >= 160000 /\ HueOf(p) <= 280000

\* C30: when the saturated pixels are more than 5% of the image and all of
\* a warm hue the temperature is warm, and the temperature is never cool
\* when no saturated pixel has a cool hue.
C30_WarmPixelsGiveWarm ==
  mood # Absent =>
    /\ (/\ 20 * Cardinality(SaturatedPixels(img)) > NumPixels(img)
        /\ \A i \in SaturatedPixels(img) : WarmHue(img.data[i]))
         => mood.temperature = "warm"
    /\ (\A i \in SaturatedPixels(img) : ~CoolHue(img.data[i]))
         => mood.temperature # "cool"

Spec == Init /\ [][Next]_vars

SpecTone == InitTone /\ [][Next]_vars

SpecWide == InitWide /\ [][Next]_vars

====
